---- MODULE Spec2Model ----
(***************************************************************************)
(* Client-side session / navigation / scroll reconciliation of the         *)
(* second-hand shop storefront (app.js).                                   *)
(*                                                                         *)
(* The sources hold several revisions of app.js next to each other.  A     *)
(* page runs exactly one revision, named by the variable rev:              *)
(*   "A"  src/unnamed/part_001 lines    1-683  (refactored, checkSession)  *)
(*   "B"  src/unnamed/part_001 lines  685-1207 (same listeners as          *)
(*        src/static/app.js 650-1276 and 1-420)                            *)
(*   "C"  src/unnamed/part_001 lines 1209-1459 (redirects through the      *)
(*        authChangedClient listener)                                      *)
(*   "D"  src/unnamed/part_000 lines  198-380  (server-driven)             *)
(*                                                                         *)
(* Browser semantics used throughout:                                      *)
(*  - localStorage survives page loads; timers, listeners and DOM state    *)
(*    do not;                                                              *)
(*  - an event dispatched on window reaches only listeners registered on   *)
(*    window: a listener registered on document or document.body is not    *)
(*    on the event path of window.dispatchEvent;                           *)
(*  - location.replace / location.href = ... start a navigation; script    *)
(*    keeps running until the new page's load (action PageLoad).           *)
(***************************************************************************)
EXTENDS Integers, Sequences, FiniteSets, TLC

VARIABLES
    rev,            \* revision of app.js the page runs
    now,            \* Date.now(), in ticks (TicksPerSec ticks per second)
    href,           \* window.location.href (origin left out: the path)
    scrollY,        \* window.scrollY
    jwtToken,       \* localStorage["jwtToken"]
    guestCartId,    \* localStorage["guestCartId"]
    scrollStore,    \* localStorage["productScrollPosition"]
    timers,         \* pending setTimeout callbacks, in registration order
    navs,           \* navigations issued by this page, in order
    removals,       \* localStorage.removeItem("jwtToken") calls of this page
    others,         \* a handler other than a session-expiry 401 had an effect on this page
    expiries,       \* non-login 401 responses handled by this page
    scrolls,        \* window.scrollTo calls of this page
    swapListeners,  \* htmx:afterSwap listeners added by htmx:afterRequest (rev A)
    spinner,        \* #global-loading-spinner has class "show"
    authMsgs,       \* #login-messages / #registration-messages hold text
    inflight,       \* htmx requests sent and not yet ended
    isReloading,    \* the flag of forceReload (rev A)
    form,           \* the adminProductEditForm component of the page, if any
    last            \* the handler that ran last: its input, the state before, its effects

vars == << rev, now, href, scrollY, jwtToken, guestCartId, scrollStore, timers,
           navs, removals, others, expiries, scrolls, swapListeners, spinner, authMsgs,
           inflight, isReloading, form, last >>

----------------------------------------------------------------------------
(* Bounds of the model *)

MaxNow == 3
TicksPerSec == 2
MaxPending == 2
MaxCalls == 2
MaxScrollY == 1

(* Delays passed to setTimeout *)
LogoutDelay == 0
ExpiryDelayA == 0
ExpiryDelayB == 700
ScrollRestoreDelay == 100
BackendReloadDelay == 500
LoginDelayC == 700
LoginDelayD == 700
HideDelay == 200
ReloadDelayB == 1
RegisterDelayA == 0
RegisterDelayB == 1
RegisterDelayC == 1500
RegisterDelayD == 1500
OrderDelay == 1500

Revs == {"A", "B", "C", "D"}

HomePath == "/"
LoginFormPath == "/logowanie"
AccountPath == "/moje-konto"
Paths == {HomePath, LoginFormPath}

LoginSubmitPath == "/api/auth/login"
ReqPaths == {LoginSubmitPath, "/htmx/moje-konto"}

----------------------------------------------------------------------------
(* Strings held by localStorage.  getItem returns null for a missing key:  *)
(* NoItem.  A stored string is a non-empty tuple, so it never equals       *)
(* NoItem.                                                                 *)

NoItem == << >>

(* A JSON text and the value JSON.parse gives for it: t = "invalid" for a  *)
(* text that is no JSON, e the kind of the value's exp member, n its       *)
(* number (seconds since the epoch) when e = "number".                     *)
Json(t, e, n) == [t |-> t, e |-> e, n |-> n]
JsNull == Json("null", "absent", 0)

(* One dot-separated segment of a token: whether atob accepts it, whether  *)
(* the bytes are well-formed UTF-8 for decodeURIComponent, and the text.   *)
Seg(b64, utf8, json) == [b64 |-> b64, utf8 |-> utf8, json |-> json]

Hdr1 == Seg(TRUE, TRUE, Json("object", "absent", 1))
Sig1 == Seg(TRUE, FALSE, Json("invalid", "absent", 1))
Payload(e, n) == Seg(TRUE, TRUE, Json("object", e, n))

TokExp(n) == << Hdr1, Payload("number", n), Sig1 >>
TokNoDot == << Hdr1 >>
TokBadB64 == << Hdr1, Seg(FALSE, TRUE, Json("object", "number", 1)), Sig1 >>
TokBadUtf8 == << Hdr1, Seg(TRUE, FALSE, Json("object", "number", 1)), Sig1 >>
TokBadJson == << Hdr1, Seg(TRUE, TRUE, Json("invalid", "absent", 0)), Sig1 >>
TokNullJson == << Hdr1, Seg(TRUE, TRUE, JsNull), Sig1 >>
TokNoExp == << Hdr1, Payload("absent", 0), Sig1 >>
TokStrExp == << Hdr1, Payload("string", 0), Sig1 >>

(* exp claims run up to MaxExp seconds; the clock starts at that instant    *)
MaxExp == MaxNow \div TicksPerSec
StartNow == MaxExp * TicksPerSec
Undecodable == {TokNoDot, TokBadB64, TokBadUtf8, TokBadJson, TokNullJson}
Tokens == {TokExp(n) : n \in 0..MaxExp} \cup Undecodable \cup {TokNoExp, TokStrExp}

GuestIds == {<< "guest-1" >>}

----------------------------------------------------------------------------
(* Effects a handler has, in program order (last.log) *)

Eff(k, a, b, c) == [k |-> k, a |-> a, b |-> b, c |-> c]
ShowMessage(type) == Eff("dispatch", "showMessage", type, "window")
AuthChangedClient(isAuth, source) == Eff("dispatch", "authChangedClient", isAuth, source)

(* A pending setTimeout callback *)
(* by: the token of the login event that registered the callback, kept    *)
(* for the record; no callback reads it                                    *)
Task(delay, act, url, pos) ==
    [delay |-> delay, act |-> act, url |-> url, pos |-> pos, by |-> NoItem]
LoginTask(delay, act, url, token) == [Task(delay, act, url, 0) EXCEPT !.by = token]
NoTask == Task(0, "none", "", 0)
Nav(kind, url) == [kind |-> kind, url |-> url]

(* The page state the handlers work on, as one record *)
PageState ==
    [ jwt |-> jwtToken, guest |-> guestCartId, scroll |-> scrollStore,
      timers |-> timers, navs |-> navs, removals |-> removals,
      scrollY |-> scrollY, scrolls |-> scrolls, swapL |-> swapListeners,
      spinner |-> spinner, msgs |-> authMsgs, inflight |-> inflight,
      isReloading |-> isReloading, log |-> << >>, threw |-> FALSE ]

RemoveToken(s) ==
    [s EXCEPT !.jwt = NoItem, !.removals = @ + 1,
              !.log = Append(@, Eff("removeItem", "jwtToken", "", ""))]
SetToken(s, t) ==
    [s EXCEPT !.jwt = t, !.log = Append(@, Eff("setItem", "jwtToken", "", ""))]
Dispatch(s, e) == [s EXCEPT !.log = Append(@, e)]
SetTimeout(s, task) ==
    [s EXCEPT !.timers = Append(@, task),
              !.log = Append(@, Eff("setTimeout", task.act, task.url, ""))]
Navigate(s, kind, url) ==
    [s EXCEPT !.navs = Append(@, Nav(kind, url)),
              !.log = Append(@, Eff("navigate", kind, url, ""))]

----------------------------------------------------------------------------
(* parseJwt, src/unnamed/part_001:547-563.  Each step either gives a value *)
(* or throws; the whole body sits in try { } catch { return null }.  A      *)
(* token is held as the tuple of its dot-separated segments, so            *)
(* token.split(".")[1] is token[2], undefined for a token without a dot.   *)

Atob(seg) == [ok |-> seg.b64, val |-> seg]
DecodeURIComponent(seg) == [ok |-> seg.utf8, val |-> seg.json]
JSONparse(text) == [ok |-> text.t # "invalid", val |-> text]

(* parseJwt with the try/catch left out *)
parseJwtNoCatch(token) ==
    IF Len(token) < 2 THEN [threw |-> TRUE, val |-> JsNull]
    ELSE LET bytes == Atob(token[2]) IN
         IF ~bytes.ok THEN [threw |-> TRUE, val |-> JsNull]
         ELSE LET text == DecodeURIComponent(bytes.val) IN
              IF ~text.ok THEN [threw |-> TRUE, val |-> JsNull]
              ELSE LET obj == JSONparse(text.val) IN
                   IF ~obj.ok THEN [threw |-> TRUE, val |-> JsNull]
                   ELSE [threw |-> FALSE, val |-> obj.val]

(* a parseJwt that rejects a token whose header does not decode *)
parseJwtChecksHeader(token) ==
    IF Len(token) < 2 \/ ~Atob(token[1]).ok THEN [threw |-> FALSE, val |-> JsNull]
    ELSE [parseJwtNoCatch(token) EXCEPT !.threw = FALSE]

parseJwt(token) ==
    IF Len(token) < 2 THEN [threw |-> FALSE, val |-> JsNull]
    ELSE LET bytes == Atob(token[2]) IN
         IF ~bytes.ok THEN [threw |-> FALSE, val |-> JsNull]
         ELSE LET text == DecodeURIComponent(bytes.val) IN
              IF ~text.ok THEN [threw |-> FALSE, val |-> JsNull]
              ELSE LET obj == JSONparse(text.val) IN
                   IF ~obj.ok THEN [threw |-> FALSE, val |-> JsNull]
                   ELSE [threw |-> FALSE, val |-> obj.val]

(* !decodedToken || !decodedToken.exp *)
Truthy(json) == json.t = "object"
ExpTruthy(json) == \/ json.e = "string"
                   \/ json.e = "number" /\ json.n # 0

(* decodedToken.exp < Date.now() / 1000; a non-numeric string gives NaN,   *)
(* and every comparison with NaN is false.                                 *)
isExpiredInverted(json, t) == json.e = "number" /\ json.n * TicksPerSec > t
isExpiredOrNow(json, t) == json.e = "number" /\ json.n * TicksPerSec <= t
isExpired(json, t) == json.e = "number" /\ json.n * TicksPerSec < t

(* clientSideLogout without the removeItem *)
clientSideLogoutKeepToken(s) ==
    SetTimeout(Dispatch(s, ShowMessage("info")), Task(LogoutDelay, "logout", HomePath, 0))

(* clientSideLogout that leaves the page before it tells the user *)
clientSideLogoutNavigatesFirst(s) ==
    Dispatch(RemoveToken(Navigate(s, "assign", HomePath)), ShowMessage("info"))

(* clientSideLogout that clears the whole of localStorage *)
clientSideLogoutClear(s) ==
    SetTimeout(Dispatch([RemoveToken(s) EXCEPT !.guest = NoItem], ShowMessage("info")),
               Task(LogoutDelay, "logout", HomePath, 0))

(* clientSideLogout, src/unnamed/part_001:569-592 *)
clientSideLogout(s) ==
    SetTimeout(Dispatch(RemoveToken(s), ShowMessage("info")),
               Task(LogoutDelay, "logout", HomePath, 0))

(* checkSession, src/unnamed/part_001:598-622 *)
checkSession(s, t) ==
    IF s.jwt = NoItem THEN s
    ELSE LET decoded == parseJwt(s.jwt) IN
         IF decoded.threw THEN [s EXCEPT !.threw = TRUE]
         ELSE IF ~Truthy(decoded.val) \/ ~ExpTruthy(decoded.val) THEN clientSideLogout(s)
         ELSE IF isExpired(decoded.val, t) THEN clientSideLogout(s)
         ELSE s

----------------------------------------------------------------------------
(* htmx:responseError *)

(* a hideSpinner that leaves the class list alone *)
hideSpinnerKeepShow(s) == s
hideSpinner(s) == [s EXCEPT !.spinner = FALSE]
showSpinner(s) == [s EXCEPT !.spinner = TRUE]

(* src/unnamed/part_001:203-239, then hideSpinner registered at 133 *)
responseErrorA(s, status, path) ==
    hideSpinner(
      IF status = 401 /\ path # LoginSubmitPath
      THEN SetTimeout(
             Dispatch(
               Dispatch(
                 RemoveToken(Dispatch(s, Eff("fetch", "POST", "/api/auth/logout", ""))),
                 AuthChangedClient("false", "401")),
               ShowMessage("warning")),
             Task(ExpiryDelayA, "replace", HomePath, 0))
      ELSE s)

(* the listener of 887-941 without the removeItem *)
responseErrorKeepToken(s, status, path) ==
    hideSpinner(
      IF status = 401 /\ path # LoginSubmitPath
      THEN SetTimeout(
             Dispatch(Dispatch(s, AuthChangedClient("false", "")), ShowMessage("warning")),
             Task(ExpiryDelayB, "replace", HomePath, 0))
      ELSE s)

(* src/unnamed/part_001:887-941 (the same text as src/static/app.js:187-241 *)
(* and 817-871), then the spinner listener registered at 1201              *)
responseErrorB(s, status, path) ==
    hideSpinner(
      IF status = 401 /\ path # LoginSubmitPath
      THEN SetTimeout(
             Dispatch(
               Dispatch(RemoveToken(s), AuthChangedClient("false", "")),
               ShowMessage("warning")),
             Task(ExpiryDelayB, "replace", HomePath, 0))
      ELSE s)

(* src/unnamed/part_001:1429-1459: the request path is not looked at.  The *)
(* authChangedClient event goes to window; the redirecting listener of     *)
(* this revision (1257) is registered on document and does not receive it. *)
responseErrorC(s, status, path) ==
    IF status = 401
    THEN Dispatch(
           Dispatch(RemoveToken(s), AuthChangedClient("false", "redirect:/logowanie")),
           ShowMessage("warning"))
    ELSE s

(* src/unnamed/part_000:198-380 registers no htmx:responseError listener *)
responseErrorD(s, status, path) == s

responseError(r, s, status, path) ==
    CASE r = "A" -> responseErrorA(s, status, path)
      [] r = "B" -> responseErrorB(s, status, path)
      [] r = "C" -> responseErrorC(s, status, path)
      [] r = "D" -> responseErrorD(s, status, path)
      [] r = "G" -> hideSpinner(s)

----------------------------------------------------------------------------
(* loginSuccessDetails.  detail.has is FALSE for an event without detail;  *)
(* detail.token is NoItem for a detail without token (or an empty one).    *)

HasToken(detail) == detail.has /\ detail.token # NoItem
loginFailedRedirect(s) == Navigate(Dispatch(s, ShowMessage("error")), "replace", HomePath)
loginFailed(s) == Dispatch(s, ShowMessage("error"))

(* src/unnamed/part_001:340-359 *)
loginSuccessDetailsA(s, detail) ==
    IF HasToken(detail)
    THEN Navigate(SetToken(s, detail.token), "replace", HomePath)
    ELSE loginFailed(s)

(* src/unnamed/part_001:839-863 (the same text as src/static/app.js:120-144) *)
loginSuccessDetailsB(s, detail) ==
    IF HasToken(detail)
    THEN Navigate(SetToken(s, detail.token), "replace", HomePath)
    ELSE loginFailed(s)

(* src/unnamed/part_001:1356-1386 *)
loginSuccessDetailsC(s, detail) ==
    IF HasToken(detail)
    THEN SetTimeout(SetToken(s, detail.token),
                    LoginTask(LoginDelayC, "dispatchAuth", AccountPath, detail.token))
    ELSE loginFailed(s)

(* src/unnamed/part_000:275-314 *)
loginSuccessDetailsD(s, detail) ==
    IF HasToken(detail)
    THEN SetTimeout(Dispatch(SetToken(s, detail.token), AuthChangedClient("true", "")),
                    LoginTask(LoginDelayD, "ajax", AccountPath, detail.token))
    ELSE loginFailed(s)

loginSuccessDetails(r, s, detail) ==
    CASE r = "A" -> loginSuccessDetailsA(s, detail)
      [] r = "B" -> loginSuccessDetailsB(s, detail)
      [] r = "C" -> loginSuccessDetailsC(s, detail)
      [] r = "D" -> loginSuccessDetailsD(s, detail)

(* The view a logged-in user is sent to *)
LandingPath(r) == IF r \in {"A", "B"} THEN HomePath ELSE AccountPath

----------------------------------------------------------------------------
(* authChangedFromBackend.  detail.isAuth is "undefined", "true", "false". *)

BackendStore(s, detail) ==
    IF detail.token # NoItem THEN SetToken(s, detail.token)
    ELSE IF detail.isAuth = "false" THEN RemoveToken(s)
    ELSE s

(* src/unnamed/part_001:810-836 (the same text as src/static/app.js:91-117) *)
authChangedFromBackendB(s, detail) ==
    IF detail.has /\ detail.isAuth # "undefined"
    THEN LET needsReload == \/ detail.token # NoItem /\ detail.isAuth = "true"
                            \/ detail.token = NoItem /\ detail.isAuth = "false"
             told == Dispatch(BackendStore(s, detail), AuthChangedClient(detail.isAuth, ""))
         IN IF needsReload
            THEN SetTimeout(told, Task(BackendReloadDelay, "replace", HomePath, 0))
            ELSE told
    ELSE s

(* src/unnamed/part_001:1336-1354 *)
authChangedFromBackendC(s, detail) ==
    IF detail.has /\ detail.isAuth # "undefined"
    THEN Dispatch(BackendStore(s, detail), AuthChangedClient(detail.isAuth, "redirect"))
    ELSE s

(* src/unnamed/part_000:254-272 *)
authChangedFromBackendD(s, detail) ==
    IF detail.has /\ detail.isAuth # "undefined"
    THEN LET told == Dispatch(BackendStore(s, detail), AuthChangedClient(detail.isAuth, ""))
         IN IF detail.isAuth = "true" /\ detail.redirect
            THEN Navigate(told, "ajax", AccountPath)
            ELSE told
    ELSE s

(* revision A registers no authChangedFromBackend listener *)
authChangedFromBackend(r, s, detail) ==
    CASE r = "A" -> s
      [] r = "B" -> authChangedFromBackendB(s, detail)
      [] r = "C" -> authChangedFromBackendC(s, detail)
      [] r = "D" -> authChangedFromBackendD(s, detail)

----------------------------------------------------------------------------
(* Scroll position memory, revision A *)

JSONstringify(obj) == << obj >>
ScrollData(position, returnUrl) == [position |-> position, returnUrl |-> returnUrl]

ScrollTo(s, top) ==
    [s EXCEPT !.scrollY = top, !.scrolls = @ + 1,
              !.log = Append(@, Eff("scrollTo", "", "", ""))]
(* window.scrollTo({ top: 0, ... }) after a request or a swap *)
ScrollToTop(s) ==
    [s EXCEPT !.scrollY = 0, !.scrolls = @ + 1,
              !.log = Append(@, Eff("scrollToTop", "", "", ""))]
(* target.scrollIntoView({ block: "start" }): the top of the swap target *)
ScrollIntoView(s, targetTop) ==
    [s EXCEPT !.scrollY = targetTop,
              !.log = Append(@, Eff("scrollIntoView", "", "", ""))]
RemoveScroll(s) ==
    [s EXCEPT !.scroll = NoItem,
              !.log = Append(@, Eff("removeItem", "productScrollPosition", "", ""))]

(* saveScrollPositionForProductLink, src/unnamed/part_001:638-651 *)
saveScrollPositionForProductLink(s, url) ==
    [s EXCEPT !.scroll = JSONstringify(ScrollData(s.scrollY, url)),
              !.log = Append(@, Eff("setItem", "productScrollPosition", "", ""))]

(* restoreScrollPosition that keeps a pair stored for another URL *)
restoreKeepStale(s, url) ==
    IF s.scroll = NoItem THEN s
    ELSE IF s.scroll[1].returnUrl = url
         THEN SetTimeout(s, Task(ScrollRestoreDelay, "scroll", "", s.scroll[1].position))
         ELSE s

(* the value restoreScrollPosition returns, 660 and 673-682 *)
restoreReturns(item, url) == item # NoItem /\ item[1].returnUrl = url

(* restoreScrollPosition, src/unnamed/part_001:658-683 *)
restoreScrollPosition(s, url) ==
    IF s.scroll = NoItem THEN s
    ELSE LET scrollData == s.scroll[1] IN
         IF scrollData.returnUrl = url
         THEN SetTimeout(s, Task(ScrollRestoreDelay, "scroll", "", scrollData.position))
         ELSE RemoveScroll(s)

(* the callback without the removeItem *)
restoreCallbackKeepPair(s, task) == ScrollTo(s, task.pos)

(* the callback restoreScrollPosition hands to setTimeout, 668-672 *)
restoreCallback(s, task) == RemoveScroll(ScrollTo(s, task.pos))

(* the callback without the assignment to location.href *)
logoutCallbackStay(s) == [s EXCEPT !.spinner = TRUE]

(* the callback clientSideLogout hands to setTimeout, 581-591 *)
logoutCallback(s) == [Navigate(s, "assign", HomePath) EXCEPT !.spinner = TRUE]

(* n listeners, each calling restoreScrollPosition (126-128) *)
RECURSIVE restoreTimes(_, _, _)
restoreTimes(n, s, url) ==
    IF n = 0 THEN s ELSE restoreTimes(n - 1, restoreScrollPosition(s, url), url)

----------------------------------------------------------------------------
(* htmx:configRequest: the headers the listeners leave on the request *)

Header(name, scheme, cred) == [name |-> name, scheme |-> scheme, cred |-> cred]

(* the decorator with the token as the whole Authorization value *)
configRequestBare(hasHeaders, guest, jwt) ==
    IF ~hasHeaders THEN {}
    ELSE (IF guest # NoItem THEN {Header("X-Guest-Cart-Id", "", guest)} ELSE {})
         \cup (IF jwt # NoItem THEN {Header("Authorization", "", jwt)} ELSE {})

(* src/unnamed/part_001:166-178 (the same decorator at 686-692, 1210-1216, *)
(* src/unnamed/part_000:205-211)                                           *)
configRequestA(hasHeaders, guest, jwt) ==
    IF ~hasHeaders THEN {}
    ELSE (IF guest # NoItem THEN {Header("X-Guest-Cart-Id", "", guest)} ELSE {})
         \cup (IF jwt # NoItem THEN {Header("Authorization", "Bearer ", jwt)} ELSE {})

(* src/unnamed/part_000:369-380, registered after the decorator at 205-211; *)
(* it reads detail.headers without looking whether it is there             *)
configRequestCheckout(hasHeaders, guest, checkout) ==
    IF guest # NoItem /\ checkout
    THEN [threw |-> ~hasHeaders,
          headers |-> IF hasHeaders THEN {Header("x-guest-cart-id", "", guest)} ELSE {}]
    ELSE [threw |-> FALSE, headers |-> {}]

configRequest(r, hasHeaders, checkout, guest, jwt) ==
    IF r = "D"
    THEN LET more == configRequestCheckout(hasHeaders, guest, checkout)
         IN [threw |-> more.threw,
             headers |-> configRequestA(hasHeaders, guest, jwt) \cup more.headers]
    ELSE [threw |-> FALSE, headers |-> configRequestA(hasHeaders, guest, jwt)]

----------------------------------------------------------------------------
(* The state machine *)

NoDetail == [has |-> FALSE, token |-> NoItem, isAuth |-> "undefined", redirect |-> FALSE]
Pre == [jwt |-> jwtToken, guest |-> guestCartId, scroll |-> scrollStore,
        timers |-> timers, navs |-> navs, scrollY |-> scrollY, now |-> now,
        spinner |-> spinner, msgs |-> authMsgs, inflight |-> inflight]
Ran(op, status, path, detail, task, s, hdrs) ==
    [op |-> op, status |-> status, path |-> path, detail |-> detail, task |-> task,
     pre |-> Pre, log |-> s.log, threw |-> s.threw, headers |-> hdrs]

(* MaxPending: callbacks pending plus navigations issued, per page; a     *)
(* callback that navigates keeps the sum, so no bound stops a due timer   *)
WithinBounds(s) ==
    /\ Len(s.timers) + Len(s.navs) <= MaxPending
    /\ s.removals <= MaxCalls
    /\ s.scrolls <= MaxCalls
    /\ s.swapL <= MaxCalls
    /\ s.inflight <= MaxCalls

Commit(s) ==
    /\ WithinBounds(s)
    /\ jwtToken' = s.jwt
    /\ guestCartId' = s.guest
    /\ scrollStore' = s.scroll
    /\ timers' = s.timers
    /\ navs' = s.navs
    /\ removals' = s.removals
    /\ scrollY' = s.scrollY
    /\ scrolls' = s.scrolls
    /\ swapListeners' = s.swapL
    /\ spinner' = s.spinner
    /\ authMsgs' = s.msgs
    /\ inflight' = s.inflight
    /\ isReloading' = s.isReloading

Fresh == [PageState EXCEPT !.timers = << >>, !.navs = << >>, !.removals = 0,
                           !.scrollY = 0, !.scrolls = 0, !.swapL = 0,
                           !.spinner = FALSE, !.msgs = FALSE,
                           !.inflight = 0, !.isReloading = FALSE]

(* DOMContentLoaded, src/unnamed/part_001:45-47; the other revisions do    *)
(* nothing with the session or the scroll position at load                 *)
DOMContentLoaded(r, s, url, t) ==
    IF r = "A"
    THEN LET checked == checkSession(s, t)
         IN IF checked.threw THEN checked ELSE restoreScrollPosition(checked, url)
    ELSE s

(* adminProductEditForm. Three versions of the component are in the       *)
(* sources: "P" (unnamed/part_001:428-540), "Q" (static/app.js:273-420)    *)
(* and "R" (static/app.js:903-1157). Slots are numbered from 1 here, from  *)
(* 0 in the code. A File object is "file", the data URL a FileReader       *)
(* produces is DataUrl, JavaScript's null is Null.                         *)
Null == "null"
DataUrl == "data:"
SlotIds == {1, 2}
FormVersions == {"P", "Q", "R"}
EmptySlots == [i \in SlotIds |-> Null]

(* The object adminProductEditForm() returns; reads: FileReaders whose     *)
(* onload has not run; op, index, chosen, held, marked: the handler that   *)
(* ran last, its arguments, and imageFiles[index] and the mark of the      *)
(* slot's original image before it ran                                     *)
Component(version) ==
    [version |-> version, inited |-> FALSE,
     existingImagesOnInit |-> << >>, imagePreviews |-> EmptySlots,
     imageFiles |-> EmptySlots, imagesToDelete |-> << >>, reads |-> {},
     op |-> "new", index |-> 0, chosen |-> Null, held |-> Null, marked |-> FALSE]
NoForm == Component("none")

Loaded(revs, tokens, guests) ==
    /\ rev \in revs
    /\ now = StartNow
    /\ href = HomePath
    /\ scrollY = 0
    /\ jwtToken \in tokens
    /\ guestCartId \in guests
    /\ scrollStore = NoItem
    /\ timers = << >>
    /\ navs = << >>
    /\ removals = 0
    /\ others = FALSE
    /\ expiries = 0
    /\ scrolls = 0
    /\ swapListeners = 0
    /\ spinner = FALSE
    /\ authMsgs = FALSE
    /\ inflight = 0
    /\ isReloading = FALSE
    /\ form = NoForm
    /\ last = [op |-> "init", status |-> 0, path |-> "", detail |-> NoDetail,
               task |-> NoTask,
               pre |-> [jwt |-> jwtToken, guest |-> guestCartId, scroll |-> NoItem,
                        timers |-> << >>, navs |-> << >>, scrollY |-> 0,
                        now |-> StartNow, spinner |-> FALSE, msgs |-> FALSE,
                        inflight |-> 0],
               log |-> << >>, threw |-> FALSE, headers |-> {}]

(* A page of any revision, just loaded by a visitor with no session *)
Init == Loaded(Revs, {NoItem}, GuestIds)

(* time passes *)
Tick ==
    /\ now < MaxNow
    /\ now' = now + 1
    /\ UNCHANGED << form, rev, href, scrollY, jwtToken, guestCartId, scrollStore, timers, navs,
                    removals, others, expiries, scrolls, swapListeners, spinner,
                    authMsgs, inflight, isReloading, last >>

(* a full page load at url: a navigation this page issued completes, or    *)
(* the user opens or reloads a page                                        *)
PageLoad(url) ==
    LET s == DOMContentLoaded(rev, Fresh, url, now) IN
    /\ Commit(s)
    /\ href' = url
    /\ others' = (s.log # << >>)
    /\ expiries' = 0
    /\ last' = Ran("load", 0, url, NoDetail, NoTask, s, {})
    /\ UNCHANGED << form, rev, now >>

(* htmx:responseError *)
ResponseError(status, path) ==
    LET s == responseError(rev, PageState, status, path)
        expiry == status = 401 /\ path # LoginSubmitPath
    IN
    /\ Commit(s)
    /\ expiries' = IF expiry THEN expiries + 1 ELSE expiries
    /\ expiries' <= MaxCalls
    /\ others' = (others \/ (~expiry /\ s.log # << >>))
    /\ last' = Ran("responseError", status, path, NoDetail, NoTask, s, {})
    /\ UNCHANGED << form, rev, now, href >>

(* loginSuccessDetails, sent by the server through HX-Trigger *)
LoginSuccessDetails(detail) ==
    LET s == loginSuccessDetails(rev, PageState, detail) IN
    /\ Commit(s)
    /\ others' = TRUE
    /\ last' = Ran("loginSuccessDetails", 0, "", detail, NoTask, s, {})
    /\ UNCHANGED << form, rev, now, href, expiries >>

(* authChangedFromBackend, sent by the server through HX-Trigger *)
AuthChangedFromBackend(detail) ==
    LET s == authChangedFromBackend(rev, PageState, detail) IN
    /\ rev # "A"
    /\ Commit(s)
    /\ others' = (others \/ s.log # << >>)
    /\ last' = Ran("authChangedFromBackend", 0, "", detail, NoTask, s, {})
    /\ UNCHANGED << form, rev, now, href, expiries >>

(* logoutClient, src/unnamed/part_001:134-136 *)
LogoutClient ==
    LET s == clientSideLogout(PageState) IN
    /\ rev = "A"
    /\ Commit(s)
    /\ others' = TRUE
    /\ last' = Ran("logoutClient", 0, "", NoDetail, NoTask, s, {})
    /\ UNCHANGED << form, rev, now, href, expiries >>

(* window.location.href("/"), src/unnamed/part_001:791 and 801: href is a  *)
(* string, the call is a TypeError and nothing is navigated               *)
hrefCall(s) == [s EXCEPT !.threw = TRUE]

(* A timer registered earlier with a delay that is not longer fires first *)
CanFire(i) == \A j \in 1..(i - 1) : timers[j].delay > timers[i].delay
Without(seq, i) == SubSeq(seq, 1, i - 1) \o SubSeq(seq, i + 1, Len(seq))

timerCallback(s, task) ==
    CASE task.act = "logout" -> logoutCallback(s)
      [] task.act = "replace" -> Navigate(s, "replace", task.url)
      [] task.act = "ajax" -> Navigate(s, "ajax", task.url)
      [] task.act = "dispatchAuth" -> Dispatch(s, AuthChangedClient("true", "redirect"))
      [] task.act = "scroll" -> restoreCallback(s, task)
      [] task.act = "hrefCall" -> hrefCall(s)
      [] task.act = "skip" -> s
      [] task.act = "hideSpinner" -> hideSpinner(s)

FireTimer(i) ==
    LET task == timers[i]
        s == timerCallback([PageState EXCEPT !.timers = Without(timers, i)], task)
    IN
    /\ CanFire(i)
    /\ Commit(s)
    /\ last' = Ran("timer", 0, "", NoDetail, task, s, {})
    /\ UNCHANGED << form, rev, now, href, others, expiries >>

FireTimers == \E i \in 1..Len(timers) : FireTimer(i)

(* tokens the server sends: one that is valid at the start, one that does *)
(* not decode                                                              *)
LoginTokens == {TokExp(MaxExp), TokBadJson}

LoginDetails ==
    {NoDetail, [NoDetail EXCEPT !.has = TRUE]}
    \cup {[NoDetail EXCEPT !.has = TRUE, !.token = t] : t \in LoginTokens}

BackendDetails ==
    {NoDetail}
    \cup {[has |-> TRUE, token |-> t, isAuth |-> a, redirect |-> r] :
            t \in {NoItem, TokExp(MaxExp)}, a \in {"undefined", "true", "false"},
            r \in BOOLEAN}

Next ==
    \/ Tick
    \/ \E url \in Paths : PageLoad(url)
    \/ \E status \in {401, 500}, path \in ReqPaths : ResponseError(status, path)
    \/ \E detail \in LoginDetails : LoginSuccessDetails(detail)
    \/ \E detail \in BackendDetails : AuthChangedFromBackend(detail)
    \/ LogoutClient
    \/ FireTimers

Spec == Init /\ [][Next]_vars

----------------------------------------------------------------------------
(* Session expiry, for every token storage may hold: checkSession at page  *)
(* load (revision A) and 401 responses (revisions A and B).  The event     *)
(* loop runs every due callback of a page that stays open: weak fairness   *)
(* of FireTimers.  The page is reloaded only between callbacks.            *)

InitLive == Loaded({"A", "B"}, {NoItem} \cup Tokens, GuestIds)

Reload(url) ==
    /\ timers = << >>
    /\ PageLoad(url)

NextLive ==
    \/ Tick
    \/ \E url \in Paths : Reload(url)
    \/ \E status \in {401, 500}, path \in ReqPaths : ResponseError(status, path)
    \/ LogoutClient
    \/ FireTimers

SpecLive == InitLive /\ [][NextLive]_vars /\ WF_vars(FireTimers)

----------------------------------------------------------------------------
(* The request decorator, for every storage state *)

InitRequest == Loaded(Revs, {NoItem} \cup Tokens, {NoItem} \cup GuestIds)

(* htmx:configRequest; hasHeaders: event.detail.headers is there;          *)
(* checkout: the request path contains "/htmx/checkout"                    *)
ConfigRequest(hasHeaders, checkout) ==
    LET out == configRequest(rev, hasHeaders, checkout, guestCartId, jwtToken) IN
    /\ last' = [Ran("configRequest", IF hasHeaders THEN 1 ELSE 0,
                    IF checkout THEN "/htmx/checkout" ELSE "/htmx/moje-konto",
                    NoDetail, NoTask, PageState, out.headers)
                EXCEPT !.threw = out.threw]
    /\ UNCHANGED << form, rev, now, href, scrollY, jwtToken, guestCartId, scrollStore, timers,
                    navs, removals, others, expiries, scrolls, swapListeners, spinner,
                    authMsgs, inflight, isReloading >>

NextRequest == \E hasHeaders \in BOOLEAN, checkout \in BOOLEAN :
                   ConfigRequest(hasHeaders, checkout)

SpecRequest == InitRequest /\ [][NextRequest]_vars

----------------------------------------------------------------------------
(* Scroll position memory (revision A) and the scroll reset after a swap  *)
(* (revisions A and B)                                                     *)

InitScroll == Loaded({"A", "B"}, {NoItem}, GuestIds)

(* the user scrolls *)
UserScroll(y) ==
    /\ y # scrollY
    /\ scrollY' = y
    /\ last' = Ran("scroll", 0, "", NoDetail, NoTask, PageState, {})
    /\ UNCHANGED << form, rev, now, href, jwtToken, guestCartId, scrollStore, timers, navs,
                    removals, others, expiries, scrolls, swapListeners, spinner,
                    authMsgs, inflight, isReloading >>

(* a click on a link to a product, src/unnamed/part_001:50-55 *)
ClickProductLink ==
    LET s == saveScrollPositionForProductLink(PageState, href) IN
    /\ rev = "A"
    /\ Commit(s)
    /\ last' = Ran("click", 0, "", NoDetail, NoTask, s, {})
    /\ UNCHANGED << form, rev, now, href, others, expiries >>

(* Request paths are sequences of segments.  noScrollPaths,                *)
(* src/unnamed/part_001:103-109: a prefix ending in "/" needs a further    *)
(* segment after its own                                                   *)
Prefix(segs, slash) == [segs |-> segs, slash |-> slash]
noScrollPaths ==
    { Prefix(<< "htmx", "cart", "remove" >>, TRUE),
      Prefix(<< "htmx", "cart", "toggle" >>, TRUE),
      Prefix(<< "htmx", "cart", "details" >>, FALSE),
      Prefix(<< "api", "orders" >>, TRUE),
      Prefix(<< "api", "products" >>, TRUE) }
startsWith(path, prefix) ==
    /\ Len(path) >= Len(prefix.segs) + (IF prefix.slash THEN 1 ELSE 0)
    /\ SubSeq(path, 1, Len(prefix.segs)) = prefix.segs
RequestPaths ==
    { << "htmx", "cart", "remove", "1" >>, << "htmx", "cart", "details" >>,
      << "htmx", "cart", "remove" >>, << "htmx", "produkty" >> }
HistoryRestoreHeader == Header("HX-History-Restore-Request", "", "true")
RequestHeaders(historyRestore) == IF historyRestore THEN {HistoryRestoreHeader} ELSE {}
(* event.detail of htmx:afterRequest *)
Request(successful, path) == [successful |-> successful, requestPath |-> path]

(* the listener without the look at the stored pair *)
afterRequestNoPair(s, url, successful, noScrollPath, historyRestore) ==
    IF ~successful THEN hideSpinner(s)
    ELSE hideSpinner([(IF ~noScrollPath /\ ~historyRestore THEN ScrollToTop(s) ELSE s)
                         EXCEPT !.swapL = @ + 1])

(* htmx:afterRequest, src/unnamed/part_001:80-131.  noScrollPath: the      *)
(* request path starts with one of noScrollPaths; historyRestore: the      *)
(* request carries HX-History-Restore-Request                              *)
afterRequestA(s, url, successful, noScrollPath, historyRestore) ==
    IF ~successful THEN hideSpinner(s)
    ELSE LET isRestorePending == s.scroll # NoItem /\ s.scroll[1].returnUrl = url
             scrolled == IF ~noScrollPath /\ ~historyRestore /\ ~isRestorePending
                         THEN ScrollToTop(s) ELSE s
         IN hideSpinner([scrolled EXCEPT !.swapL = @ + 1])

(* revision B: src/unnamed/part_001:1193-1195 hides the spinner *)
afterRequest(r, s, url, successful, path, historyRestore) ==
    IF r = "A"
    THEN afterRequestA(s, url, successful,
                       \E prefix \in noScrollPaths : startsWith(path, prefix),
                       historyRestore)
    ELSE hideSpinner(s)

AfterRequest(successful, path, historyRestore) ==
    LET s == afterRequest(rev, PageState, href, successful, path, historyRestore) IN
    /\ Commit(s)
    /\ last' = Ran("afterRequest", 0, "", Request(successful, path), NoTask, s,
                   RequestHeaders(historyRestore))
    /\ UNCHANGED << form, rev, now, href, others, expiries >>

(* htmx:afterSwap: the listener of src/unnamed/part_001:180-198, then the  *)
(* listeners htmx:afterRequest has added so far (126-128)                  *)
isAuthPage(url) == url = LoginFormPath
(* the clearing without the look at the path *)
clearMessagesAnywhere(s, url, inContent) ==
    IF inContent THEN [s EXCEPT !.msgs = FALSE] ELSE s
clearMessages(s, url, inContent) ==
    IF inContent /\ ~isAuthPage(url) THEN [s EXCEPT !.msgs = FALSE] ELSE s
afterSwapA(s, url, inContent) ==
    restoreTimes(s.swapL, clearMessages(s, url, inContent), url)

(* revision B: the listener of src/unnamed/part_001:712-736, then the one  *)
(* registered at 740-764                                                   *)
afterSwapB(s, url, inContent, historyRestore, targetTop) ==
    IF historyRestore
    THEN clearMessages(s, url, inContent)
    ELSE clearMessages(ScrollIntoView(clearMessages(ScrollToTop(s), url, inContent),
                                      targetTop),
                       url, inContent)

afterSwap(r, s, url, inContent, historyRestore, targetTop) ==
    IF r = "A" THEN afterSwapA(s, url, inContent)
    ELSE afterSwapB(s, url, inContent, historyRestore, targetTop)

AfterSwap(inContent, historyRestore, targetTop) ==
    LET s == afterSwap(rev, PageState, href, inContent, historyRestore, targetTop) IN
    /\ Commit(s)
    /\ last' = Ran("afterSwap", IF inContent THEN 1 ELSE 0, "", NoDetail, NoTask, s,
                   RequestHeaders(historyRestore))
    /\ UNCHANGED << form, rev, now, href, others, expiries >>

(* the server's answer to a login or registration form puts text into     *)
(* #login-messages or #registration-messages (src/unnamed/part_001:189-195) *)
MessagesRendered ==
    /\ ~authMsgs
    /\ authMsgs' = TRUE
    /\ last' = Ran("render", 0, "", NoDetail, NoTask, PageState, {})
    /\ UNCHANGED << form, rev, now, href, scrollY, jwtToken, guestCartId, scrollStore, timers,
                    navs, removals, others, expiries, scrolls, swapListeners, spinner,
                    inflight, isReloading >>

NextScroll ==
    \/ \E url \in Paths : PageLoad(url)
    \/ \E y \in 0..MaxScrollY : UserScroll(y)
    \/ ClickProductLink
    \/ \E ok \in BOOLEAN, path \in RequestPaths, historyRestore \in BOOLEAN :
           AfterRequest(ok, path, historyRestore)
    \/ \E inContent \in BOOLEAN, historyRestore \in BOOLEAN, targetTop \in 0..MaxScrollY :
           AfterSwap(inContent, historyRestore, targetTop)
    \/ FireTimers

SpecScroll == InitScroll /\ [][NextScroll]_vars

----------------------------------------------------------------------------
(* The inline messages of the login and registration forms (revisions A   *)
(* and B)                                                                  *)

InitMessages == Loaded({"A", "B"}, {NoItem}, GuestIds)

NextMessages ==
    \/ \E url \in Paths : PageLoad(url)
    \/ MessagesRendered
    \/ \E ok \in BOOLEAN, path \in RequestPaths, historyRestore \in BOOLEAN :
           AfterRequest(ok, path, historyRestore)
    \/ \E inContent \in BOOLEAN, historyRestore \in BOOLEAN, targetTop \in 0..MaxScrollY :
           AfterSwap(inContent, historyRestore, targetTop)

SpecMessages == InitMessages /\ [][NextMessages]_vars

----------------------------------------------------------------------------
(* The authChangedClient listeners, registered on document.  The event     *)
(* reaches them when it is dispatched on an element of the document and    *)
(* bubbles (an HX-Trigger response header, a dispatch from the markup).    *)
(* Revisions with such a listener:                                         *)
(*   "A" src/unnamed/part_001:411-417     "B" src/unnamed/part_001:769-807 *)
(*   "C" src/unnamed/part_001:1257-1334   "E" src/static/app.js:470-524    *)
(*   "F" src/unnamed/part_002:49-100                                       *)

ListenerRevs == {"A", "B", "C", "E", "F"}

(* event.detail: source "" and pushUrl "" stand for members left unset;    *)
(* pushUrl stands for redirectUrl "/htmx" + pushUrl and that pushUrl;      *)
(* force is forceReload (B) or forceRedirect (C, E)                        *)
NoUrl == ""
EventDetails ==
    [isAuth : BOOLEAN, source : {"", "login", "logout", "401"},
     pushUrl : {NoUrl} \cup Paths, force : BOOLEAN]

(* the pushUrl the listeners of C, E and F compute *)
Target(d) ==
    IF d.pushUrl # NoUrl THEN d.pushUrl
    ELSE IF d.isAuth THEN AccountPath ELSE LoginFormPath

ReloadContent == Eff("trigger", "reload-content", "content", "")

(* src/unnamed/part_001:411-417: console.log only *)
authChangedClientA(s, url, d) == s

(* src/unnamed/part_001:769-807 (the same text as src/static/app.js:50-88). *)
(* The callback keeps isAlreadyHome of the time of the event: Task.pos is  *)
(* 1 when the page was at "/"                                              *)
authChangedClientB(s, url, d) ==
    LET isAlreadyHome == url = HomePath
        reload == ~isAlreadyHome \/ d.force
    IN IF d.source = "login" /\ d.isAuth
       THEN IF reload THEN hrefCall(s) ELSE s
       ELSE IF d.source \in {"logout", "401"} /\ ~d.isAuth
       THEN SetTimeout(s, Task(ReloadDelayB, IF reload THEN "hrefCall" ELSE "skip",
                               HomePath, IF isAlreadyHome THEN 1 ELSE 0))
       ELSE s

(* src/unnamed/part_001:1257-1334; the else branch reads the undeclared    *)
(* xhr (1323) after htmx.trigger: a ReferenceError                         *)
authChangedClientC(s, url, d) ==
    IF url # Target(d) \/ url = HomePath \/ d.force
    THEN Navigate(s, "ajax", Target(d))
    ELSE [Dispatch(s, ReloadContent) EXCEPT !.threw = TRUE]

(* src/static/app.js:470-524 *)
authChangedClientE(s, url, d) ==
    IF url # Target(d) \/ d.force THEN Navigate(s, "ajax", Target(d)) ELSE s

(* src/unnamed/part_002:49-100 *)
authChangedClientF(s, url, d) ==
    IF url # Target(d) THEN Navigate(s, "ajax", Target(d)) ELSE Dispatch(s, ReloadContent)

authChangedClient(r, s, url, d) ==
    CASE r = "A" -> authChangedClientA(s, url, d)
      [] r = "B" -> authChangedClientB(s, url, d)
      [] r = "C" -> authChangedClientC(s, url, d)
      [] r = "E" -> authChangedClientE(s, url, d)
      [] r = "F" -> authChangedClientF(s, url, d)

AuthChangedClientEvent(d) ==
    LET s == authChangedClient(rev, PageState, href, d) IN
    /\ Commit(s)
    /\ others' = TRUE
    /\ last' = Ran("authChangedClient", 0, "", d, NoTask, s, {})
    /\ UNCHANGED << form, rev, now, href, expiries >>

(* the response of the oldest htmx.ajax still under way is swapped in and  *)
(* its pushUrl becomes the location                                        *)
AjaxCompletes ==
    /\ navs # << >>
    /\ navs[1].kind = "ajax"
    /\ href' = navs[1].url
    /\ navs' = Tail(navs)
    /\ last' = Ran("ajaxDone", 0, navs[1].url, NoDetail, NoTask, PageState, {})
    /\ UNCHANGED << form, rev, now, scrollY, jwtToken, guestCartId, scrollStore, timers,
                    removals, others, expiries, scrolls, swapListeners, spinner,
                    authMsgs, inflight, isReloading >>

InitAuth == Loaded(ListenerRevs, {NoItem, TokExp(MaxExp)}, GuestIds)

NextAuth ==
    \/ \E d \in EventDetails : AuthChangedClientEvent(d)
    \/ AjaxCompletes
    \/ FireTimers
    \/ \E url \in Paths : PageLoad(url)

SpecAuth == InitAuth /\ [][NextAuth]_vars

----------------------------------------------------------------------------
(* The busy indicator.  Revisions with htmx:beforeRequest listeners:       *)
(*   "A" src/unnamed/part_001:68-77   "B" src/unnamed/part_001:1186-1191   *)
(*   "G" src/unnamed/part_009:16-26 (its other listeners: 28-45)           *)
(* A request path is the sequence of its segments, each written after a    *)
(* "/": << >> is "" and << "" >> is "/".                                   *)

SpinnerRevs == {"A", "B", "G"}

isRootPath(path) == path = << "" >> \/ path = << >>
SpinnerPaths == { << "" >>, << >>, << "htmx", "produkty" >> }

(* src/unnamed/part_001:68-77 *)
beforeRequestA(s, path, historyRestore) ==
    IF isRootPath(path) THEN Navigate(showSpinner(s), "assign", HomePath)
    ELSE showSpinner(s)

(* src/unnamed/part_001:1186-1191 *)
beforeRequestB(s, path, historyRestore) ==
    IF historyRestore THEN s ELSE showSpinner(s)

(* src/unnamed/part_009:16-26 *)
beforeRequestG(s, path, historyRestore) ==
    IF isRootPath(path) THEN Navigate(s, "assign", HomePath)
    ELSE showSpinner(s)

beforeRequest(r, s, path, historyRestore) ==
    CASE r = "A" -> beforeRequestA(s, path, historyRestore)
      [] r = "B" -> beforeRequestB(s, path, historyRestore)
      [] r = "G" -> beforeRequestG(s, path, historyRestore)

(* event.preventDefault() in htmx:beforeRequest: the request is not sent *)
defaultPrevented(r, path) == r \in {"A", "G"} /\ isRootPath(path)

(* MaxCalls: requests sent by a page; each may end in a listener added by  *)
(* htmx:afterRequest (rev A)                                               *)
BeforeRequest(path, historyRestore) ==
    LET sent == ~defaultPrevented(rev, path)
        s == beforeRequest(rev, [PageState EXCEPT !.inflight = IF sent THEN @ + 1 ELSE @],
                           path, historyRestore)
    IN
    /\ sent => inflight + swapListeners < MaxCalls
    /\ Commit(s)
    /\ last' = Ran("beforeRequest", IF sent THEN 1 ELSE 0, "", [requestPath |-> path],
                   NoTask, s, RequestHeaders(historyRestore))
    /\ UNCHANGED << form, rev, now, href, others, expiries >>

(* a request that was sent ends: htmx:afterRequest *)
RequestEnd(successful, path, historyRestore) ==
    LET s == afterRequest(rev, [PageState EXCEPT !.inflight = @ - 1], href,
                          successful, path, historyRestore)
    IN
    /\ inflight > 0
    /\ Commit(s)
    /\ last' = Ran("afterRequest", 0, "", Request(successful, path), NoTask, s,
                   RequestHeaders(historyRestore))
    /\ UNCHANGED << form, rev, now, href, others, expiries >>

RequestEnds ==
    \E ok \in BOOLEAN, path \in SpinnerPaths, historyRestore \in BOOLEAN :
        RequestEnd(ok, path, historyRestore)

(* htmx:sendError: src/unnamed/part_001:132 and 1198-1200, part_009:32 *)
SendError ==
    LET s == hideSpinner(PageState) IN
    /\ Commit(s)
    /\ last' = Ran("sendError", 0, "", NoDetail, NoTask, s, {})
    /\ UNCHANGED << form, rev, now, href, others, expiries >>

(* forceReload without the flag *)
forceReloadAlways(s, url) == Navigate(s, "reload", url)

(* forceReload, src/unnamed/part_001:139-150 *)
forceReload(s, url) ==
    IF s.isReloading THEN s
    ELSE Navigate([s EXCEPT !.isReloading = TRUE], "reload", url)

(* pageshow, src/unnamed/part_001:152-156 *)
pageshowA(s, url, persisted) == IF persisted THEN forceReload(s, url) ELSE s

(* a pageshow listener that does nothing *)
pageshowIgnored(s, url, persisted) == s

(* pageshow, src/unnamed/part_009:37-45 *)
pageshowG(s, url, persisted) ==
    IF persisted THEN SetTimeout(s, Task(HideDelay, "hideSpinner", "", 0)) ELSE s

(* revision B registers no pageshow listener *)
pageshow(r, s, url, persisted) ==
    CASE r = "A" -> pageshowA(s, url, persisted)
      [] r = "B" -> s
      [] r = "G" -> pageshowG(s, url, persisted)

(* pageshow.  persisted: the page comes back from the back/forward cache;  *)
(* lost: the requests it had sent ended while it was away, and their       *)
(* events are never delivered                                              *)
PageShow(persisted, lost) ==
    LET s == pageshow(rev, [PageState EXCEPT !.inflight = IF lost THEN 0 ELSE @],
                      href, persisted)
    IN
    /\ lost => persisted
    /\ Commit(s)
    /\ last' = Ran("pageshow", IF persisted THEN 1 ELSE 0, "", NoDetail, NoTask, s, {})
    /\ UNCHANGED << form, rev, now, href, others, expiries >>

(* htmx:historyRestore, src/unnamed/part_001:158-160 *)
HistoryRestoreEvent ==
    LET s == forceReload(PageState, href) IN
    /\ rev = "A"
    /\ Commit(s)
    /\ last' = Ran("historyRestore", 0, "", NoDetail, NoTask, s, {})
    /\ UNCHANGED << form, rev, now, href, others, expiries >>

(* the navigation the page issued last is carried out: a full page load *)
NavCompletes ==
    /\ navs # << >>
    /\ navs[Len(navs)].kind # "ajax"
    /\ PageLoad(navs[Len(navs)].url)

InitSpinner == Loaded(SpinnerRevs, {NoItem}, GuestIds)

NextSpinner ==
    \/ \E path \in SpinnerPaths, historyRestore \in BOOLEAN :
           BeforeRequest(path, historyRestore)
    \/ RequestEnds
    \/ inflight > 0 /\ expiries = 0 /\ \E status \in {401, 500}, path \in ReqPaths :
                                         ResponseError(status, path)
    \/ SendError
    \/ \E persisted \in BOOLEAN, lost \in BOOLEAN : PageShow(persisted, lost)
    \/ HistoryRestoreEvent
    \/ FireTimers
    \/ NavCompletes

(* The browser ends every request it has sent, runs every due callback     *)
(* and carries out every navigation: weak fairness of each.  Error         *)
(* responses are followed up to the first expired session of a page.       *)
SpecSpinner ==
    /\ InitSpinner /\ [][NextSpinner]_vars
    /\ WF_vars(RequestEnds) /\ WF_vars(FireTimers) /\ WF_vars(NavCompletes)

----------------------------------------------------------------------------
(* Responses inspected before and after the swap (revision A).  A response *)
(* body is given by t, the kind of value JSON.parse gives for it           *)
(* ("invalid": the text is no JSON), by msg, its showMessage member        *)
(* ("absent", "null", or the type of the payload), and by product: the     *)
(* value has truthy members id and name.                                   *)

Body(t, msg, product) == [t |-> t, msg |-> msg, product |-> product]
BodyKinds == {"invalid", "null", "number", "object"}
BodyMsgs == {"absent", "null", "success"}
WellFormed(t, msg, product) == t # "object" => (msg = "absent" /\ ~product)

(* the listener with the try/catch left out *)
afterOnLoadNoCatch(s, t, msg) ==
    IF t = "invalid" \/ t = "null" THEN [s EXCEPT !.threw = TRUE]
    ELSE IF msg \notin {"absent", "null"} THEN Dispatch(s, ShowMessage(msg))
    ELSE s

(* htmx:afterOnLoad, src/unnamed/part_001:293-304: JSON.parse throws for a *)
(* text that is no JSON and null.showMessage is a TypeError; both are      *)
(* caught                                                                  *)
afterOnLoad(s, t, msg) ==
    IF t = "invalid" \/ t = "null" THEN s
    ELSE IF msg \notin {"absent", "null"} THEN Dispatch(s, ShowMessage(msg))
    ELSE s

AfterOnLoad(t, msg, product) ==
    LET s == afterOnLoad(PageState, t, msg) IN
    /\ rev = "A"
    /\ WellFormed(t, msg, product)
    /\ Commit(s)
    /\ last' = Ran("afterOnLoad", 0, "", Body(t, msg, product), NoTask, s, {})
    /\ UNCHANGED << form, rev, now, href, others, expiries >>

AdminProductsPath == "/htmx/admin/products"
ProductsPrefix == Prefix(<< "api", "products" >>, TRUE)
SwapPaths == { << "api", "products", "7" >>, << "htmx", "produkty" >> }

(* htmx:beforeSwap, src/unnamed/part_001:245-287 *)
beforeSwapA(s, verb, path, status, t, product) ==
    LET isProductPatch == verb = "patch" /\ startsWith(path, ProductsPrefix) IN
    IF isProductPatch /\ status = 200 /\ t = "object" /\ product
    THEN Navigate(Dispatch(s, ShowMessage("success")), "ajax", AdminProductsPath)
    ELSE s

(* last.status is the response status; last.path = "patch" names the verb *)
BeforeSwap(verb, path, status, t, msg, product) ==
    LET s == beforeSwapA(PageState, verb, path, status, t, product) IN
    /\ rev = "A"
    /\ WellFormed(t, msg, product)
    /\ Commit(s)
    /\ last' = Ran("beforeSwap", status, verb, Body(t, msg, product), NoTask, s, {})
    /\ UNCHANGED << form, rev, now, href, others, expiries >>

InitResponse == Loaded({"A"}, {NoItem, TokExp(MaxExp)}, GuestIds)

NextResponse ==
    \/ \E t \in BodyKinds, msg \in BodyMsgs, product \in BOOLEAN :
           AfterOnLoad(t, msg, product)
    \/ \E verb \in {"get", "patch"}, path \in SwapPaths, status \in {200, 500},
          t \in BodyKinds, msg \in BodyMsgs, product \in BOOLEAN :
           BeforeSwap(verb, path, status, t, msg, product)
    \/ AjaxCompletes

SpecResponse == InitResponse /\ [][NextResponse]_vars

----------------------------------------------------------------------------
(* Storage that throws (revision A): the browser denies localStorage, and  *)
(* every getItem, setItem and removeItem of a handler throws.              *)

(* checkSession, src/unnamed/part_001:598-622: getItem (599) is in no try  *)
checkSessionStorageThrows(s) == [s EXCEPT !.threw = TRUE]

(* saveScrollPositionForProductLink, 638-651: setItem throws inside the    *)
(* try, console.error                                                      *)
saveScrollStorageThrows(s) == s

(* restoreScrollPosition, 658-683: getItem throws inside the try, and the  *)
(* catch block calls removeItem (680), which throws                        *)
restoreScrollStorageThrows(s) == [s EXCEPT !.threw = TRUE]

(* htmx:configRequest, 166-178: getItem (169) is in no try *)
configRequestStorageThrows(hasHeaders) == [threw |-> hasHeaders, headers |-> {}]

StorageThrows == [NoDetail EXCEPT !.isAuth = "storage throws"]

(* DOMContentLoaded, 45-47: checkSession throws and the listener ends *)
LoadStorageThrows(url) ==
    LET s == checkSessionStorageThrows(Fresh) IN
    /\ Commit(s)
    /\ href' = url
    /\ others' = FALSE
    /\ expiries' = 0
    /\ last' = Ran("load", 0, url, StorageThrows, NoTask, s, {})
    /\ UNCHANGED << form, rev, now >>

ClickStorageThrows ==
    LET s == saveScrollStorageThrows(PageState) IN
    /\ Commit(s)
    /\ last' = Ran("click", 0, "", StorageThrows, NoTask, s, {})
    /\ UNCHANGED << form, rev, now, href, others, expiries >>

(* htmx:afterSwap: the listener of 180-198, then the first listener added  *)
(* by htmx:afterRequest (126-128)                                          *)
AfterSwapStorageThrows(inContent) ==
    LET cleared == clearMessages(PageState, href, inContent)
        s == IF swapListeners >= 1 THEN restoreScrollStorageThrows(cleared) ELSE cleared
    IN
    /\ Commit(s)
    /\ last' = Ran("afterSwap", IF inContent THEN 1 ELSE 0, "", StorageThrows, NoTask, s, {})
    /\ UNCHANGED << form, rev, now, href, others, expiries >>

ConfigRequestStorageThrows(hasHeaders) ==
    LET out == configRequestStorageThrows(hasHeaders) IN
    /\ last' = [Ran("configRequest", IF hasHeaders THEN 1 ELSE 0, "/htmx/moje-konto",
                    StorageThrows, NoTask, PageState, out.headers)
                EXCEPT !.threw = out.threw]
    /\ UNCHANGED << form, rev, now, href, scrollY, jwtToken, guestCartId, scrollStore, timers,
                    navs, removals, others, expiries, scrolls, swapListeners, spinner,
                    authMsgs, inflight, isReloading >>

InitStorage == Loaded({"A"}, {NoItem, TokExp(MaxExp)}, GuestIds)

NextStorage ==
    \/ \E url \in Paths : PageLoad(url)
    \/ ClickProductLink
    \/ \E y \in 0..MaxScrollY : UserScroll(y)
    \/ \E ok \in BOOLEAN : AfterRequest(ok, << "htmx", "produkty" >>, FALSE)
    \/ \E inContent \in BOOLEAN : AfterSwap(inContent, FALSE, 0)
    \/ FireTimers
    \/ \E url \in Paths : LoadStorageThrows(url)
    \/ ClickStorageThrows
    \/ \E inContent \in BOOLEAN : AfterSwapStorageThrows(inContent)
    \/ \E hasHeaders \in BOOLEAN : ConfigRequestStorageThrows(hasHeaders)

SpecStorage == InitStorage /\ [][NextStorage]_vars

----------------------------------------------------------------------------
(* Registration, orders and the cart, and every listener of the page at   *)
(* once.  None of these listeners reads or writes localStorage.            *)

FormReset == Eff("reset", "registration-form", "", "")
CartUpdate(target) == Eff("dispatch", "js-update-cart", "", target)
CartDetailsPath == "/htmx/cart/details"
OrderPaths == {NoUrl, HomePath}

(* a registrationComplete listener that ends the session *)
registrationCompleteLogsOut(s, hasForm) == RemoveToken(s)

(* registrationComplete, src/unnamed/part_001:364-377; hasForm: the page   *)
(* holds #registration-form                                                *)
registrationCompleteA(s, hasForm) ==
    SetTimeout(IF hasForm THEN Dispatch(s, FormReset) ELSE s,
               Task(RegisterDelayA, "ajax", LoginFormPath, 0))

(* src/unnamed/part_001:865-884 *)
registrationCompleteB(s, hasForm) ==
    SetTimeout(IF hasForm THEN Dispatch(s, FormReset) ELSE s,
               Task(RegisterDelayB, "ajax", LoginFormPath, 0))

(* src/unnamed/part_001:1388-1407 *)
registrationCompleteC(s, hasForm) ==
    SetTimeout(IF hasForm THEN Dispatch(s, FormReset) ELSE s,
               Task(RegisterDelayC, "ajax", LoginFormPath, 0))

(* src/unnamed/part_000:317-360 *)
registrationCompleteD(s, hasForm) ==
    SetTimeout(IF hasForm THEN Dispatch(s, FormReset) ELSE s,
               Task(RegisterDelayD, "ajax", LoginFormPath, 0))

registrationComplete(r, s, hasForm) ==
    CASE r = "A" -> registrationCompleteA(s, hasForm)
      [] r = "B" -> registrationCompleteB(s, hasForm)
      [] r = "C" -> registrationCompleteC(s, hasForm)
      [] r = "D" -> registrationCompleteD(s, hasForm)

RegistrationComplete(hasForm) ==
    LET s == registrationComplete(rev, PageState, hasForm) IN
    /\ Commit(s)
    /\ last' = Ran("registrationComplete", IF hasForm THEN 1 ELSE 0, "", NoDetail,
                   NoTask, s, {})
    /\ UNCHANGED << form, rev, now, href, others, expiries >>

(* an orderPlaced listener that clears the callbacks pending before it     *)
(* schedules its own                                                       *)
orderPlacedCancels(s, redirectTo) ==
    IF redirectTo # NoUrl
    THEN SetTimeout([s EXCEPT !.timers = << >>], Task(OrderDelay, "replace", redirectTo, 0))
    ELSE s

(* orderPlaced, src/unnamed/part_001:943-952 (the same text as             *)
(* src/static/app.js:243-252); the other revisions register none           *)
orderPlacedB(s, redirectTo) ==
    IF redirectTo # NoUrl
    THEN SetTimeout(s, Task(OrderDelay, "replace", redirectTo, 0))
    ELSE s

OrderPlaced(redirectTo) ==
    LET s == orderPlacedB(PageState, redirectTo) IN
    /\ rev = "B"
    /\ Commit(s)
    /\ last' = Ran("orderPlaced", 0, redirectTo, NoDetail, NoTask, s, {})
    /\ UNCHANGED << form, rev, now, href, others, expiries >>

(* updateCartCount, src/unnamed/part_001:314-335, 694-710 and 1218-1234,   *)
(* src/unnamed/part_000:214-230                                            *)
updateCartCount(s, hasDetail, hasPrice) ==
    IF ~hasDetail THEN s
    ELSE LET told == Dispatch(s, CartUpdate("body"))
         IN IF hasPrice
            THEN Dispatch(told, Eff("innerHTML", "cart-subtotal-price", "", ""))
            ELSE told

UpdateCartCount(hasDetail, hasPrice) ==
    LET s == updateCartCount(PageState, hasDetail, hasPrice) IN
    /\ hasPrice => hasDetail
    /\ Commit(s)
    /\ last' = Ran("updateCartCount", IF hasDetail THEN 1 ELSE 0, "", NoDetail,
                   NoTask, s, {})
    /\ UNCHANGED << form, rev, now, href, others, expiries >>

(* clearCartDisplay, src/unnamed/part_001:383-403: the cart panel is       *)
(* fetched again, no URL is pushed                                         *)
clearCartDisplayA(s) ==
    Dispatch(Dispatch(s, CartUpdate("window")),
             Eff("htmx.ajax", CartDetailsPath, "#cart-content-target", ""))

(* src/unnamed/part_001:954-971 *)
clearCartDisplayB(s) == Dispatch(s, CartUpdate("window"))

clearCartDisplay(r, s) == IF r = "A" THEN clearCartDisplayA(s) ELSE clearCartDisplayB(s)

ClearCartDisplay ==
    LET s == clearCartDisplay(rev, PageState) IN
    /\ rev \in {"A", "B"}
    /\ Commit(s)
    /\ last' = Ran("clearCartDisplay", 0, "", NoDetail, NoTask, s, {})
    /\ UNCHANGED << form, rev, now, href, others, expiries >>

(* The session events of every revision, with the delayed navigations of  *)
(* registration and orders                                                 *)
NextTimers ==
    \/ \E url \in Paths : PageLoad(url)
    \/ \E status \in {401, 500}, path \in ReqPaths : ResponseError(status, path)
    \/ \E detail \in LoginDetails : LoginSuccessDetails(detail)
    \/ \E detail \in BackendDetails : AuthChangedFromBackend(detail)
    \/ LogoutClient
    \/ \E hasForm \in BOOLEAN : RegistrationComplete(hasForm)
    \/ \E redirectTo \in OrderPaths : OrderPlaced(redirectTo)
    \/ FireTimers

SpecTimers == Init /\ [][NextTimers]_vars

(* Every listener of revisions A and B, on a page with or without a guest *)
(* cart.  To bound the interleavings a page is followed through events of *)
(* one group at a time: session events while it has sent no request and   *)
(* reset no scroll position, the other events while it has nothing        *)
(* pending.  localStorage carries over from page to page.                 *)
InitToken == Loaded({"A", "B"}, {NoItem}, {NoItem} \cup GuestIds)

SessionEvents ==
    \/ \E status \in {401, 500}, path \in ReqPaths : ResponseError(status, path)
    \/ \E detail \in LoginDetails : LoginSuccessDetails(detail)
    \/ \E detail \in {d \in BackendDetails : ~d.redirect} : AuthChangedFromBackend(detail)
    \/ LogoutClient
    \/ FireTimers
    \/ \E hasForm \in BOOLEAN : RegistrationComplete(hasForm)
    \/ \E redirectTo \in OrderPaths : OrderPlaced(redirectTo)

RequestEvents ==
    \/ \E path \in SpinnerPaths, historyRestore \in BOOLEAN :
           BeforeRequest(path, historyRestore)
    \/ RequestEnds
    \/ SendError
    \/ \E inContent \in BOOLEAN, historyRestore \in BOOLEAN :
           AfterSwap(inContent, historyRestore, 0)
    \/ ClickProductLink
    \/ \E persisted \in BOOLEAN : PageShow(persisted, FALSE)
    \/ HistoryRestoreEvent
    \/ \E hasDetail \in BOOLEAN, hasPrice \in BOOLEAN : UpdateCartCount(hasDetail, hasPrice)
    \/ ClearCartDisplay
    \/ \E hasHeaders \in BOOLEAN, checkout \in BOOLEAN : ConfigRequest(hasHeaders, checkout)
    \/ \E t \in BodyKinds, msg \in BodyMsgs : AfterOnLoad(t, msg, FALSE)

NextToken ==
    \/ \E url \in Paths : PageLoad(url)
    \/ inflight = 0 /\ scrolls = 0 /\ SessionEvents
    \/ timers = << >> /\ navs = << >> /\ RequestEvents

SpecToken == InitToken /\ [][NextToken]_vars

----------------------------------------------------------------------------
(* checkSession at page load, for tokens with any header and any signature *)
(* around each payload (revision A)                                        *)

NoSeg == Seg(FALSE, FALSE, Json("invalid", "absent", 0))
HeaderSegs == {Hdr1, NoSeg}
SignatureSegs == {Sig1, NoSeg}
PayloadSegs == {tok[2] : tok \in {x \in Tokens : Len(x) >= 2}}
SignedTokens == {<< h, p, g >> : h \in HeaderSegs, p \in PayloadSegs, g \in SignatureSegs}

InitSigned == Loaded({"A"}, SignedTokens, GuestIds)

NextSigned ==
    \/ Tick
    \/ \E url \in Paths : Reload(url)
    \/ FireTimers

SpecSigned == InitSigned /\ [][NextSigned]_vars

----------------------------------------------------------------------------
(* The product edit form of the admin panel *)

(* JSON.parse(initialImagesJson || "[]"), part_001:437-446: the list, or   *)
(* a SyntaxError for text that is not JSON                                 *)
ImagesJson(kind, images) == [kind |-> kind, images |-> images]
InitialImages ==
    {ImagesJson("empty", << >>), ImagesJson("invalid", << >>),
     ImagesJson("array", << >>), ImagesJson("array", <<"/img/a">>),
     ImagesJson("array", <<"/img/a", "/img/b">>),
     ImagesJson("array", <<"/img/a", "/img/a">>),
     ImagesJson("array", <<"", "/img/b">>)}
JsonParseImages(json) ==
    CASE json.kind = "empty" -> [threw |-> FALSE, value |-> << >>]
      [] json.kind = "array" -> [threw |-> FALSE, value |-> json.images]
      [] OTHER -> [threw |-> TRUE, value |-> << >>]
Files == {Null, "file"}

includes(list, x) == \E k \in 1..Len(list) : list[k] = x
(* Array.prototype.indexOf, counted from 1; 0 stands for -1 *)
indexOf(list, x) ==
    IF includes(list, x)
    THEN CHOOSE k \in 1..Len(list) : list[k] = x /\ \A j \in 1..(k - 1) : list[j] # x
    ELSE 0
(* list.splice(k, 1) *)
splice(list, k) == SubSeq(list, 1, k - 1) \o SubSeq(list, k + 1, Len(list))

(* part_001:472-474: existingImagesOnInit[index] || null *)
getOriginalUrlForSlot(f, index) ==
    IF index <= Len(f.existingImagesOnInit) /\ f.existingImagesOnInit[index] # ""
    THEN f.existingImagesOnInit[index]
    ELSE Null

(* part_001:483-490, app.js:328-334, 985-995, 1115-1126: the slot's       *)
(* original URL, if in imagesToDelete, is spliced out                      *)
unmark(f, index) ==
    LET originalUrl == getOriginalUrlForSlot(f, index)
        deleteIdx == indexOf(f.imagesToDelete, originalUrl)
    IN IF originalUrl # Null /\ deleteIdx > 0
       THEN [f EXCEPT !.imagesToDelete = splice(@, deleteIdx)]
       ELSE f

(* part_001:436-470 *)
initAlpineComponentP(f, json) ==
    LET parsed == JsonParseImages(json)
        existing == IF parsed.threw THEN << >> ELSE parsed.value
    IN [f EXCEPT !.inited = TRUE,
                 !.existingImagesOnInit = existing,
                 !.imageFiles = EmptySlots,
                 !.imagePreviews = [i \in SlotIds |->
                                       IF i <= Len(existing) THEN existing[i] ELSE Null]]
(* app.js:281-305, 911-959: imagePreviews is a copy of the list, filled   *)
(* up with null; imageFiles is left as it is                               *)
initAlpineComponentQ(f, json) ==
    LET parsed == JsonParseImages(json)
        existing == IF parsed.threw THEN << >> ELSE parsed.value
    IN [f EXCEPT !.inited = TRUE,
                 !.existingImagesOnInit = existing,
                 !.imagePreviews = [i \in SlotIds |->
                                       IF i <= Len(existing) THEN existing[i] ELSE Null]]
initAlpineComponent(f, json) ==
    IF f.version = "P" THEN initAlpineComponentP(f, json) ELSE initAlpineComponentQ(f, json)

(* reader.readAsDataURL(file): onload runs later (action ReaderLoaded) *)
readAsDataURL(f, index) == [f EXCEPT !.reads = @ \cup {index}]
(* part_001:494-498: reader.onload, then $nextTick *)
readerOnload(f, index) ==
    [f EXCEPT !.imagePreviews[index] = DataUrl, !.reads = @ \ {index}]

(* part_001:476-500 with the mark left on the original image *)
handleFileChangeKeepsMark(f, index, file) ==
    IF file = Null
    THEN f
    ELSE readAsDataURL([f EXCEPT !.imageFiles[index] = file], index)
(* part_001:476-500 *)
handleFileChangeP(f, index, file) ==
    IF file = Null
    THEN f
    ELSE readAsDataURL([unmark(f, index) EXCEPT !.imageFiles[index] = file], index)
(* app.js:311-349 *)
handleFileChangeQ(f, index, file) ==
    LET originalUrl == getOriginalUrlForSlot(f, index)
    IN IF file # Null
       THEN unmark(readAsDataURL([f EXCEPT !.imageFiles[index] = file], index), index)
       ELSE IF originalUrl # Null /\ f.imagePreviews[index] # originalUrl
            THEN [f EXCEPT !.imagePreviews[index] = originalUrl,
                           !.imageFiles[index] = Null]
            ELSE IF originalUrl = Null
                 THEN [f EXCEPT !.imagePreviews[index] = Null,
                                !.imageFiles[index] = Null]
                 ELSE f
(* app.js:965-1051; a change event of a file input carries a FileList,    *)
(* so the return of 972-982 is not taken                                   *)
handleFileChangeR(f, index, file) ==
    LET g == unmark(f, index)
    IN IF file # Null
       THEN readAsDataURL([g EXCEPT !.imageFiles[index] = file], index)
       ELSE [g EXCEPT !.imagePreviews[index] = getOriginalUrlForSlot(g, index),
                      !.imageFiles[index] = Null]
handleFileChange(f, index, file) ==
    CASE f.version = "P" -> handleFileChangeP(f, index, file)
      [] f.version = "Q" -> handleFileChangeQ(f, index, file)
      [] OTHER -> handleFileChangeR(f, index, file)

(* part_001:502-515 without the includes() test *)
removeImagePushes(f, index) ==
    LET originalUrl == getOriginalUrlForSlot(f, index)
    IN IF originalUrl # Null
       THEN [f EXCEPT !.imagesToDelete = Append(@, originalUrl)]
       ELSE [f EXCEPT !.imageFiles[index] = Null, !.imagePreviews[index] = Null]
(* part_001:502-515 *)
removeImageP(f, index) ==
    LET originalUrl == getOriginalUrlForSlot(f, index)
    IN IF originalUrl # Null /\ ~includes(f.imagesToDelete, originalUrl)
       THEN [f EXCEPT !.imagesToDelete = Append(@, originalUrl)]
       ELSE [f EXCEPT !.imageFiles[index] = Null, !.imagePreviews[index] = Null]
(* app.js:351-377 *)
removeImageQ(f, index) ==
    LET originalUrl == getOriginalUrlForSlot(f, index)
        g == IF /\ originalUrl # Null
                /\ f.imagePreviews[index] = originalUrl
                /\ ~includes(f.imagesToDelete, originalUrl)
             THEN [f EXCEPT !.imagesToDelete = Append(@, originalUrl)]
             ELSE f
    IN [g EXCEPT !.imagePreviews[index] = Null, !.imageFiles[index] = Null]
(* app.js:1053-1112 *)
removeImageR(f, index) ==
    LET originalUrl == getOriginalUrlForSlot(f, index)
    IN IF /\ originalUrl # Null
          /\ f.imagePreviews[index] = originalUrl
          /\ ~includes(f.imagesToDelete, originalUrl)
       THEN [f EXCEPT !.imagesToDelete = Append(@, originalUrl)]
       ELSE IF f.imageFiles[index] # Null
            THEN [f EXCEPT !.imageFiles[index] = Null,
                           !.imagePreviews[index] = originalUrl]
            ELSE IF originalUrl # Null /\ includes(f.imagesToDelete, originalUrl)
                 THEN f
                 ELSE [f EXCEPT !.imagePreviews[index] = Null,
                                !.imageFiles[index] = Null]
removeImage(f, index) ==
    CASE f.version = "P" -> removeImageP(f, index)
      [] f.version = "Q" -> removeImageQ(f, index)
      [] OTHER -> removeImageR(f, index)

(* part_001:517-525 *)
cancelDeletionP(f, index) == unmark(f, index)
(* app.js:379-396, 1114-1138 *)
cancelDeletionQ(f, index) ==
    LET originalUrl == getOriginalUrlForSlot(f, index)
        g == unmark(f, index)
    IN IF originalUrl # Null /\ includes(f.imagesToDelete, originalUrl)
          /\ f.imageFiles[index] = Null
       THEN [g EXCEPT !.imagePreviews[index] = originalUrl]
       ELSE g
cancelDeletion(f, index) ==
    IF f.version = "P" THEN cancelDeletionP(f, index) ELSE cancelDeletionQ(f, index)

(* part_001:535-538 *)
isMarkedForDeletionP(f, index) ==
    LET originalUrl == getOriginalUrlForSlot(f, index)
    IN originalUrl # Null /\ includes(f.imagesToDelete, originalUrl)
(* app.js:406-419, 1148-1155 *)
isMarkedForDeletionQ(f, index) ==
    isMarkedForDeletionP(f, index) /\ f.imageFiles[index] = Null
isMarkedForDeletion(f, index) ==
    IF f.version = "P" THEN isMarkedForDeletionP(f, index)
    ELSE isMarkedForDeletionQ(f, index)

(* The handler that ran, and what the slot held before it ran *)
Called(g, op, index, file) ==
    [g EXCEPT !.op = op, !.index = index, !.chosen = file,
              !.held = form.imageFiles[index],
              !.marked = includes(form.imagesToDelete,
                                  getOriginalUrlForSlot(form, index))]
PageUnchanged ==
    UNCHANGED << rev, now, href, scrollY, jwtToken, guestCartId, scrollStore, timers,
                 navs, removals, others, expiries, scrolls, swapListeners, spinner,
                 authMsgs, inflight, isReloading, last >>

(* x-data="adminProductEditForm()" *)
CreateForm(version) ==
    /\ form = NoForm
    /\ form' = Component(version)
    /\ PageUnchanged
(* x-init="initAlpineComponent(...)": once for a component *)
InitAlpineComponent(json) ==
    /\ form # NoForm
    /\ ~form.inited
    /\ form' = [initAlpineComponent(form, json) EXCEPT !.op = "initAlpineComponent"]
    /\ PageUnchanged
HandleFileChange(index, file) ==
    /\ form.inited
    /\ form' = Called(handleFileChange(form, index, file), "handleFileChange", index, file)
    /\ PageUnchanged
ReaderLoaded(index) ==
    /\ index \in form.reads
    /\ form' = Called(readerOnload(form, index), "onload", index, Null)
    /\ PageUnchanged
RemoveImage(index) ==
    /\ form.inited
    /\ form' = Called(removeImage(form, index), "removeImage", index, Null)
    /\ PageUnchanged
CancelDeletion(index) ==
    /\ form.inited
    /\ form' = Called(cancelDeletion(form, index), "cancelDeletion", index, Null)
    /\ PageUnchanged

InitForm == Loaded({"B"}, {NoItem}, {NoItem})
NextForm ==
    \/ \E version \in FormVersions : CreateForm(version)
    \/ \E json \in InitialImages : InitAlpineComponent(json)
    \/ \E index \in SlotIds, file \in Files : HandleFileChange(index, file)
    \/ \E index \in SlotIds : ReaderLoaded(index)
    \/ \E index \in SlotIds : RemoveImage(index)
    \/ \E index \in SlotIds : CancelDeletion(index)
SpecForm == InitForm /\ [][NextForm]_vars

----------------------------------------------------------------------------
(* Properties *)

InLog(e) == \E i \in 1..Len(last.log) : last.log[i] = e
Emitted(name) == \E i \in 1..Len(last.log) :
                     last.log[i].k = "dispatch" /\ last.log[i].a = name
NothingScheduled == timers = last.pre.timers /\ navs = last.pre.navs
LastNav == navs[Len(navs)]

(* a 401 on a path other than the login submission was handled last *)
SessionExpired ==
    /\ last.op = "responseError"
    /\ last.status = 401
    /\ last.path # LoginSubmitPath

(* C1: on a page where only non-login 401 responses have been handled      *)
(* (one or more) and no scheduled navigation has fired yet, the token has  *)
(* been deleted exactly once and exactly one navigation to "/" is          *)
(* scheduled.                                                              *)
C1_ExactlyOnce ==
    (rev \in {"A", "B"} /\ expiries >= 1 /\ ~others /\ navs = << >>)
        => /\ removals = 1
           /\ Len(timers) = 1
           /\ timers[1].act = "replace" /\ timers[1].url = HomePath

(* C2: after a 401 on "/api/auth/login" is handled, the stored token is    *)
(* what it was, no authChangedClient event was emitted and no navigation   *)
(* was scheduled or performed.                                             *)
C2_LoginRejected ==
    (last.op = "responseError" /\ last.status = 401 /\ last.path = LoginSubmitPath)
        => /\ jwtToken = last.pre.jwt
           /\ ~Emitted("authChangedClient")
           /\ NothingScheduled

----------------------------------------------------------------------------
(* checkSession at page load (revision A) *)

Decoded(token) == parseJwt(token).val

(* the page was just loaded with a stored token whose exp is a number      *)
(* strictly below the load time in seconds                                 *)
ExpiredAtLoad ==
    /\ rev = "A" /\ last.op = "load"
    /\ last.pre.jwt # NoItem
    /\ Decoded(last.pre.jwt).t = "object"
    /\ Decoded(last.pre.jwt).e = "number"
    /\ Decoded(last.pre.jwt).n * TicksPerSec < last.pre.now

(* the page was just loaded with a stored token that does not decode or    *)
(* has no exp                                                              *)
MalformedAtLoad ==
    /\ rev = "A" /\ last.op = "load"
    /\ last.pre.jwt # NoItem
    /\ \/ Decoded(last.pre.jwt) = JsNull
       \/ Decoded(last.pre.jwt).e = "absent"

ForcedLogoutLog ==
    << Eff("removeItem", "jwtToken", "", ""), ShowMessage("info"),
       Eff("setTimeout", "logout", HomePath, "") >>

ForcedLogout ==
    /\ ~last.threw
    /\ jwtToken = NoItem
    /\ last.log = ForcedLogoutLog
    /\ timers = << Task(LogoutDelay, "logout", HomePath, 0) >>

(* the callback of clientSideLogout has run: location.href = "/" *)
LogoutNavigated ==
    /\ last.op = "timer"
    /\ last.task.act = "logout"
    /\ navs # << >> /\ LastNav = Nav("assign", HomePath)

(* C3: a page load with a stored token whose exp is before the load time   *)
(* removes the token at once, and the full navigation to "/" follows.      *)
C3_ExpiredLoggedOut ==
    /\ [](ExpiredAtLoad => ForcedLogout)
    /\ (ExpiredAtLoad ~> LogoutNavigated)

C3_Witness ==
    /\ ExpiredAtLoad
    /\ Decoded(last.pre.jwt).n > 0
    /\ jwtToken = NoItem
    /\ timers # << >>

(* C4: a page load with a stored token that does not decode, or decodes    *)
(* to a payload without exp, takes the forced logout of an expired token:  *)
(* token removed, info notification, then the full navigation to "/";      *)
(* parseJwt throws for no token.                                           *)
C4_MalformedLoggedOut ==
    /\ [](\A t \in Tokens : ~parseJwt(t).threw)
    /\ [](MalformedAtLoad => ForcedLogout)
    /\ (MalformedAtLoad ~> LogoutNavigated)

C4_Witness ==
    /\ MalformedAtLoad
    /\ last.pre.jwt \in Undecodable
    /\ jwtToken = NoItem
    /\ InLog(ShowMessage("info"))

----------------------------------------------------------------------------
(* What storage holds *)

(* decodable, with an exp that is not before time t *)
ValidAt(token, t) ==
    /\ Decoded(token).t = "object"
    /\ ExpTruthy(Decoded(token))
    /\ ~(Decoded(token).e = "number" /\ Decoded(token).n * TicksPerSec < t)

----------------------------------------------------------------------------
(* loginSuccessDetails *)

LoggedIn == last.op = "loginSuccessDetails" /\ HasToken(last.detail)
LoginRefused == last.op = "loginSuccessDetails" /\ ~HasToken(last.detail)

(* C6: after loginSuccessDetails with a token t storage holds t, and the   *)
(* handler navigates to the landing path at once or schedules a callback;  *)
(* when that callback has run, a navigation to the landing path has been   *)
(* issued.                                                                 *)
C6_LoginNavigates ==
    /\ LoggedIn =>
         /\ jwtToken = last.detail.token
         /\ \/ navs # last.pre.navs /\ LastNav.url = LandingPath(rev)
            \/ Len(timers) = Len(last.pre.timers) + 1
    /\ (last.op = "timer" /\ last.task.act \in {"dispatchAuth", "ajax"}) =>
         /\ navs # last.pre.navs
         /\ LastNav.url = LandingPath(rev)

(* C7: after loginSuccessDetails without a token storage is what it was,   *)
(* one showMessage of type error is all the handler emitted, and no        *)
(* navigation was scheduled or performed.                                  *)
C7_LoginRefused ==
    LoginRefused =>
        /\ jwtToken = last.pre.jwt
        /\ last.log = << ShowMessage("error") >>
        /\ NothingScheduled

C7_Witness ==
    /\ LoginRefused
    /\ last.pre.jwt # NoItem
    /\ jwtToken = last.pre.jwt
    /\ InLog(ShowMessage("error"))

----------------------------------------------------------------------------
(* Session expiry by a 401 response *)

ExpiryDelay(r) == IF r = "A" THEN ExpiryDelayA ELSE ExpiryDelayB

ExpiryHandled ==
    /\ jwtToken = NoItem
    /\ InLog(Eff("removeItem", "jwtToken", "", ""))
    /\ \E src \in {"", "401"} : InLog(AuthChangedClient("false", src))
    /\ InLog(ShowMessage("warning"))
    /\ timers # << >>
    /\ timers[Len(timers)] = Task(ExpiryDelay(rev), "replace", HomePath, 0)

(* the scheduled callback has run: location.replace("/") *)
HomeReplaced ==
    /\ last.op = "timer"
    /\ last.task.act = "replace"
    /\ navs # << >> /\ LastNav = Nav("replace", HomePath)

----------------------------------------------------------------------------
(* The request decorator *)

GuestHeaderNames == {"X-Guest-Cart-Id", "x-guest-cart-id"}
Configured == last.op = "configRequest"
HasGuestHeader == \E h \in last.headers : h.name \in GuestHeaderNames /\ h.cred = guestCartId
HasAuthorization == Header("Authorization", "Bearer ", jwtToken) \in last.headers

(* C9: on a request that carries a headers object the decorator leaves     *)
(* the guest cart header iff a guest cart id is stored and Authorization   *)
(* "Bearer " + token iff a token is stored; with neither stored it leaves  *)
(* no header and throws nothing.                                           *)
C9_Headers ==
    /\ (Configured /\ last.status = 1) =>
         /\ HasGuestHeader <=> guestCartId # NoItem
         /\ HasAuthorization <=> jwtToken # NoItem
         /\ \A h \in last.headers :
              h.name \in GuestHeaderNames \cup {"Authorization"}
    /\ (Configured /\ guestCartId = NoItem /\ jwtToken = NoItem) =>
         /\ last.headers = {}
         /\ ~last.threw

C9_Witness ==
    /\ Configured /\ last.status = 1
    /\ guestCartId # NoItem /\ jwtToken # NoItem
    /\ HasGuestHeader /\ HasAuthorization

----------------------------------------------------------------------------
(* Scroll position memory *)

RestoreTask(task) == task.act = "scroll"
RestorePending(ts) == \E i \in 1..Len(ts) : RestoreTask(ts[i])

(* C10: when restoreScrollPosition runs (at page load, after a swap) for   *)
(* a stored pair whose returnUrl is the current URL and an earlier call    *)
(* has already scheduled the restore of that pair, the call schedules no   *)
(* scroll and leaves storage as it was.                                    *)
C10_SecondCallNoOp ==
    (/\ last.op = "afterSwap"
     /\ swapListeners >= 1
     /\ last.pre.scroll # NoItem
     /\ last.pre.scroll[1].returnUrl = href
     /\ RestorePending(last.pre.timers))
        => /\ timers = last.pre.timers
           /\ scrollStore = last.pre.scroll

(* C11: a click on a product link stores the pair (scroll offset, URL); a  *)
(* page load at the stored URL schedules the scroll to the stored offset   *)
(* and keeps the pair; the scheduled callback scrolls to that offset and   *)
(* deletes the pair; a page load that finds no pair scrolls nowhere and    *)
(* schedules nothing.                                                      *)
C11_SaveReloadRestore ==
    /\ last.op = "click" =>
         scrollStore = << ScrollData(last.pre.scrollY, href) >>
    /\ (last.op = "load" /\ last.pre.scroll # NoItem
           /\ last.pre.scroll[1].returnUrl = href) =>
         /\ timers = << Task(ScrollRestoreDelay, "scroll", "", last.pre.scroll[1].position) >>
         /\ scrollStore = last.pre.scroll
    /\ (last.op = "timer" /\ RestoreTask(last.task)) =>
         /\ scrollY = last.task.pos
         /\ InLog(Eff("scrollTo", "", "", ""))
         /\ scrollStore = NoItem
    /\ (last.op = "load" /\ last.pre.scroll = NoItem) =>
         /\ timers = << >>
         /\ scrolls = 0
         /\ scrollStore = NoItem

C11_Witness ==
    /\ last.op = "timer" /\ RestoreTask(last.task)
    /\ last.task.pos > 0
    /\ last.pre.scroll = << ScrollData(last.task.pos, href) >>
    /\ scrollY = last.task.pos
    /\ scrollStore = NoItem

----------------------------------------------------------------------------
(* The authChangedClient listeners *)

Notified == last.op = "authChangedClient"

(* C12: however many authChangedClient notifications arrive, at most one   *)
(* navigation issued by the page is under way at any time.                 *)
C12_OneNavigation == rev \in {"A", "B", "E"} => Len(navs) <= 1

(* C13: a notification that does not force the redirect and whose          *)
(* computed target is the current path issues no navigation.               *)
C13_Idempotent ==
    (Notified /\ rev \in {"C", "E", "F"} /\ ~last.detail.force
        /\ Target(last.detail) = href)
        => navs = last.pre.navs

(* C14: on a notification with source "login" and isAuthenticated true    *)
(* the page at "/" navigates nowhere, and a page elsewhere issues a        *)
(* history-replacing navigation to "/".                                    *)
C14_LoginGoesHome ==
    (Notified /\ rev = "B" /\ last.detail.source = "login" /\ last.detail.isAuth)
        => IF href = HomePath
           THEN navs = last.pre.navs
           ELSE navs = Append(last.pre.navs, Nav("replace", HomePath))

(* C15: a notification with source "logout" or "401" and isAuthenticated   *)
(* false navigates nowhere at once and, on a page that is not at "/",      *)
(* schedules a callback; when that callback has run, a history-replacing   *)
(* navigation to "/" has been issued.                                      *)
C15_LogoutGoesHome ==
    /\ (Notified /\ rev = "B" /\ last.detail.source \in {"logout", "401"}
           /\ ~last.detail.isAuth) =>
         /\ navs = last.pre.navs
         /\ href # HomePath => Len(timers) = Len(last.pre.timers) + 1
    /\ (rev = "B" /\ last.op = "timer" /\ last.task.act = "hrefCall"
           /\ last.task.pos = 0) =>
         navs = Append(last.pre.navs, Nav("replace", HomePath))

(* C16: a notification without source schedules and performs no            *)
(* navigation and leaves storage as it was.                                *)
C16_NoSourceNoEffect ==
    (Notified /\ rev \in {"A", "B", "E"} /\ last.detail.source = "")
        => /\ NothingScheduled
           /\ jwtToken = last.pre.jwt
           /\ scrollStore = last.pre.scroll

----------------------------------------------------------------------------
(* checkSession when the session is good, and the forced logout *)

SessionGoodAtLoad ==
    /\ rev = "A" /\ last.op = "load"
    /\ \/ last.pre.jwt = NoItem
       \/ ValidAt(last.pre.jwt, last.pre.now)

(* C17: a page load with no stored token, or with a stored token whose exp *)
(* is not before the load time (exp equal to the load time included),      *)
(* leaves storage as it was, emits nothing and schedules and performs no   *)
(* navigation.                                                             *)
C17_CheckSessionNoOp ==
    SessionGoodAtLoad =>
        /\ ~last.threw
        /\ jwtToken = last.pre.jwt
        /\ guestCartId = last.pre.guest
        /\ scrollStore = last.pre.scroll
        /\ last.log = << >>
        /\ timers = << >>
        /\ navs = << >>

C17_Witness ==
    /\ SessionGoodAtLoad
    /\ last.pre.jwt = TokExp(MaxExp)
    /\ last.pre.now = MaxExp * TicksPerSec
    /\ jwtToken = TokExp(MaxExp)

LoggedOutByEvent == rev = "A" /\ last.op = "logoutClient"

(* C18: the logoutClient event, whatever storage holds, leaves no token,   *)
(* emits the info showMessage and registers the callback; the callback     *)
(* then runs and assigns "/" to location.href.                             *)
C18_LogoutClient ==
    /\ [](LoggedOutByEvent =>
            /\ jwtToken = NoItem
            /\ last.log = ForcedLogoutLog
            /\ timers = Append(last.pre.timers, Task(LogoutDelay, "logout", HomePath, 0)))
    /\ (LoggedOutByEvent ~> LogoutNavigated)

C18_Witness ==
    /\ LoggedOutByEvent
    /\ last.pre.jwt = TokExp(MaxExp)
    /\ jwtToken = NoItem
    /\ InLog(ShowMessage("info"))

----------------------------------------------------------------------------
(* What a login announces *)

(* C19: loginSuccessDetails with a token emits authChangedClient with      *)
(* isAuthenticated true, besides storing the token.                        *)
C19_LoginAnnounced ==
    (LoggedIn /\ rev \in {"A", "D"}) =>
        /\ jwtToken = last.detail.token
        /\ \E i \in 1..Len(last.log) :
              /\ last.log[i].k = "dispatch"
              /\ last.log[i].a = "authChangedClient"
              /\ last.log[i].b = "true"

----------------------------------------------------------------------------
(* The scroll reset after a swap *)

ScrollTopIssued == InLog(Eff("scrollToTop", "", "", ""))
HistoryRestore == HistoryRestoreHeader \in last.headers
PairPending == last.pre.scroll # NoItem /\ last.pre.scroll[1].returnUrl = href
RequestDone == rev = "A" /\ last.op = "afterRequest"
OnNoScrollPath == \E prefix \in noScrollPaths : startsWith(last.detail.requestPath, prefix)

----------------------------------------------------------------------------
(* The busy indicator *)

RequestStarting == last.op = "beforeRequest"
RootRequested == isRootPath(last.detail.requestPath)

(* C21: htmx:beforeRequest shows the indicator when the request neither    *)
(* targets the root path nor restores history, and otherwise leaves the    *)
(* indicator as it was; a request that targets the root path is cancelled  *)
(* and a full navigation to "/" is issued.                                 *)
C21_ShownUnlessRootOrRestore ==
    RequestStarting =>
        /\ (~RootRequested /\ ~HistoryRestore) => spinner
        /\ (RootRequested \/ HistoryRestore) => spinner = last.pre.spinner
        /\ RootRequested =>
             /\ last.status = 0
             /\ navs = Append(last.pre.navs, Nav("assign", HomePath))

RequestOver == last.op \in {"afterRequest", "sendError", "responseError"}

(* the page came back from the back/forward cache and the events of the   *)
(* requests it had sent will never be delivered                            *)
RequestsLost == last.op = "pageshow" /\ last.pre.inflight > 0 /\ inflight = 0

(* C22: after htmx:afterRequest (of a successful or an unsuccessful        *)
(* request), htmx:sendError or htmx:responseError has run, the indicator   *)
(* is not shown; an indicator shown while a request is under way is        *)
(* hidden later, unless the events of that request are lost.               *)
C22_HiddenWhenOver ==
    /\ [](RequestOver => ~spinner)
    /\ ((inflight > 0 /\ spinner) ~> (~spinner \/ RequestsLost))

C22_Witness ==
    /\ last.op = "afterRequest"
    /\ ~last.detail.successful
    /\ last.pre.spinner
    /\ ~spinner

PageRestored == last.op = "pageshow" /\ last.status = 1
HideTask == Task(HideDelay, "hideSpinner", "", 0)

----------------------------------------------------------------------------
(* A pair stored for another URL *)

StalePair == last.pre.scroll # NoItem /\ last.pre.scroll[1].returnUrl # href
RestoreRan ==
    /\ rev = "A"
    /\ \/ last.op = "load"
       \/ last.op = "afterSwap" /\ swapListeners >= 1

(* C24: when restoreScrollPosition runs (at page load, after a swap) and   *)
(* the stored pair names another URL than the current one, the pair is     *)
(* deleted, no scroll is performed or scheduled, and the function returns  *)
(* false.                                                                  *)
C24_StalePairDeleted ==
    (RestoreRan /\ StalePair) =>
        /\ scrollStore = NoItem
        /\ InLog(Eff("removeItem", "productScrollPosition", "", ""))
        /\ ~InLog(Eff("scrollTo", "", "", ""))
        /\ ~RestorePending(timers)
        /\ scrollY = (IF last.op = "load" THEN 0 ELSE last.pre.scrollY)
        /\ ~restoreReturns(last.pre.scroll, href)

C24_Witness ==
    /\ RestoreRan /\ StalePair
    /\ last.op = "load"
    /\ last.pre.scroll[1].position > 0
    /\ scrollStore = NoItem

----------------------------------------------------------------------------
(* The inline messages of the login and registration forms *)

Swapped == last.op = "afterSwap"
InContent == last.status = 1

(* C25: after a swap into #content or a descendant of it the login and     *)
(* registration message containers are empty when the current path is no  *)
(* auth-form view; on an auth-form view, and after a swap elsewhere, they  *)
(* are what they were.                                                     *)
C25_MessagesCleared ==
    Swapped =>
        IF InContent /\ ~isAuthPage(href)
        THEN ~authMsgs
        ELSE authMsgs = last.pre.msgs

C25_Witness ==
    /\ Swapped /\ InContent
    /\ rev = "B"
    /\ ~isAuthPage(href)
    /\ HistoryRestore
    /\ last.pre.msgs
    /\ ~authMsgs

----------------------------------------------------------------------------
(* The response inspector *)

Inspected == last.op = "afterOnLoad"
HasPayload == last.detail.t = "object" /\ last.detail.msg \notin {"absent", "null"}

(* C26: htmx:afterOnLoad emits one showMessage, with the payload of the    *)
(* body, when the body is JSON with a showMessage payload; for any other   *)
(* body it emits nothing; in both cases it throws nothing, schedules       *)
(* nothing and leaves storage and the page as they were.                   *)
C26_InspectorBestEffort ==
    Inspected =>
        /\ ~last.threw
        /\ last.log = (IF HasPayload THEN << ShowMessage(last.detail.msg) >> ELSE << >>)
        /\ NothingScheduled
        /\ jwtToken = last.pre.jwt
        /\ guestCartId = last.pre.guest
        /\ scrollStore = last.pre.scroll
        /\ spinner = last.pre.spinner
        /\ authMsgs = last.pre.msgs

C26_Witness ==
    /\ Inspected
    /\ last.detail.t = "invalid"
    /\ last.pre.jwt # NoItem
    /\ last.log = << >>
    /\ ~last.threw

----------------------------------------------------------------------------
(* Storage that throws *)

StorageThrew == last.detail = StorageThrows

(* C27: when every storage call throws, checkSession (at page load), the   *)
(* request decorator, saveScrollPositionForProductLink (at a click) and    *)
(* restoreScrollPosition (after a swap) let no exception out of their      *)
(* handler, and storage is what it was.                                    *)
C27_StorageFailureCaught ==
    (StorageThrew /\ last.op \in {"load", "configRequest", "click", "afterSwap"}) =>
        /\ ~last.threw
        /\ jwtToken = last.pre.jwt
        /\ guestCartId = last.pre.guest
        /\ scrollStore = last.pre.scroll

----------------------------------------------------------------------------
(* C28: no token-lifecycle operation (login success, 401 handling,         *)
(* clientSideLogout, checkSession at load, authChangedFromBackend, the     *)
(* callbacks they schedule) creates, changes or deletes the stored         *)
(* guestCartId: after each of them storage holds the guest identity it     *)
(* held before, or none if it held none.                                   *)

TokenOps == {"loginSuccessDetails", "responseError", "logoutClient", "load",
             "authChangedFromBackend", "timer"}

C28_GuestCartUntouched == last.op \in TokenOps => guestCartId = last.pre.guest

(* a guest identity stored before the login is there after the logout *)
C28_Witness ==
    /\ last.op \in {"logoutClient", "responseError"}
    /\ last.pre.jwt # NoItem
    /\ jwtToken = NoItem
    /\ guestCartId \in GuestIds

----------------------------------------------------------------------------
(* C29: the stored session token changes only through its lifecycle        *)
(* events.  A new token is stored only by loginSuccessDetails and          *)
(* authChangedFromBackend, and it is the token the event carries; the      *)
(* token is deleted only by a 401 response, by logoutClient, by            *)
(* checkSession at page load and by an authChangedFromBackend that says    *)
(* not authenticated; every other listener (registrationComplete, the      *)
(* request decorator, swap and scroll handlers, spinner handlers, the      *)
(* response inspector, cart and order handlers, timer callbacks) leaves    *)
(* it as it was.                                                           *)

TokenWriters == {"loginSuccessDetails", "authChangedFromBackend"}
TokenDeleters == {"responseError", "logoutClient", "load", "authChangedFromBackend"}
TokenWritten == jwtToken # last.pre.jwt /\ jwtToken # NoItem
TokenDeleted == jwtToken # last.pre.jwt /\ jwtToken = NoItem

----------------------------------------------------------------------------
(* C30: a scheduled delayed navigation is never cancelled.  Every event    *)
(* other than a page load leaves the callbacks that were pending before    *)
(* it pending, in their order, and a callback that runs removes only       *)
(* itself; so several navigations can be pending at once.                  *)

Kept(before, after) ==
    Len(after) >= Len(before) /\ SubSeq(after, 1, Len(before)) = before
NavigationTask(task) == task.act \in {"logout", "replace", "ajax", "dispatchAuth"}

C30_NeverCancelled ==
    /\ last.op \notin {"init", "load", "timer"} => Kept(last.pre.timers, timers)
    /\ last.op = "timer" =>
         \E i \in 1..Len(last.pre.timers) :
             /\ last.pre.timers[i] = last.task
             /\ Kept(Without(last.pre.timers, i), timers)

(* an order is placed while an earlier navigation is still pending *)
C30_Witness ==
    /\ last.op = "orderPlaced"
    /\ last.pre.timers # << >>
    /\ Len(timers) = Len(last.pre.timers) + 1
    /\ \A i \in 1..Len(timers) : NavigationTask(timers[i])

----------------------------------------------------------------------------
(* C31: session-expiry handling and clientSideLogout run their steps in    *)
(* order: the token is removed before any authChangedClient event is       *)
(* dispatched, the showMessage event is dispatched before the navigation   *)
(* home is scheduled, and the navigation itself is left to the callback.   *)

LoggedOutLocally ==
    \/ last.op = "logoutClient"
    \/ last.op = "load" /\ last.pre.jwt # NoItem /\ jwtToken = NoItem
IsEvent(e, name) == e.k = "dispatch" /\ e.a = name
LeavesPage(e) == e.k \in {"navigate", "setTimeout"}

C31_StepsOrdered ==
    (SessionExpired \/ LoggedOutLocally) =>
        /\ \E i \in 1..Len(last.log) :
               /\ last.log[i] = Eff("removeItem", "jwtToken", "", "")
               /\ \A j \in 1..Len(last.log) :
                      IsEvent(last.log[j], "authChangedClient") => i < j
        /\ \E i \in 1..Len(last.log) :
               /\ IsEvent(last.log[i], "showMessage")
               /\ \A j \in 1..Len(last.log) : LeavesPage(last.log[j]) => i < j
        /\ \E j \in 1..Len(last.log) :
               last.log[j].k = "setTimeout" /\ last.log[j].b = HomePath
        /\ navs = last.pre.navs

(* an expired session handled by revision A: every step happens *)
C31_Witness ==
    /\ rev = "A"
    /\ SessionExpired
    /\ last.pre.jwt # NoItem
    /\ Emitted("authChangedClient") /\ Emitted("showMessage")
    /\ timers # << >>

----------------------------------------------------------------------------
(* C32: one loginSuccessDetails event with a token causes exactly one      *)
(* navigation, at once or from the callback it registers, and when that    *)
(* navigation is issued storage holds the token of that event, whatever    *)
(* was handled in between.  The authChangedClient event with a redirectUrl *)
(* that the callback of src/unnamed/part_001:1360-1370 dispatches is taken *)
(* as its navigation.                                                      *)

LoginCallbackRan == last.op = "timer" /\ last.task.by # NoItem
OneMoreNavigation == Len(navs) = Len(last.pre.navs) + 1

C32_OneNavigationWithItsToken ==
    /\ LoggedIn =>
         \/ OneMoreNavigation /\ jwtToken = last.detail.token
         \/ /\ navs = last.pre.navs
            /\ Len(timers) = Len(last.pre.timers) + 1
            /\ timers[Len(timers)].by = last.detail.token
    /\ LoginCallbackRan =>
         /\ OneMoreNavigation \/ Emitted("authChangedClient")
         /\ jwtToken = last.task.by

----------------------------------------------------------------------------
(* C33: restoreScrollPosition runs once at DOM-ready and exactly once      *)
(* after every content swap, the first one after the page load included,   *)
(* however many successful requests ended before: one listener of          *)
(* htmx:afterSwap calls it, and with a pair stored for the current URL     *)
(* each swap and each load registers exactly one restoring callback.       *)

ScrollTasks(ts) == Cardinality({i \in 1..Len(ts) : RestoreTask(ts[i])})

C33_RestoreOncePerSwap ==
    /\ (rev = "A" /\ Swapped) =>
         /\ swapListeners = 1
         /\ PairPending => ScrollTasks(timers) = ScrollTasks(last.pre.timers) + 1
    /\ (rev = "A" /\ last.op = "load" /\ PairPending /\ ~last.threw) =>
         ScrollTasks(timers) = 1

----------------------------------------------------------------------------
(* C34: within one page lifetime location.reload is called at most once,   *)
(* whatever pageshow (persisted) and htmx:historyRestore events arrive and *)
(* in whatever order: the isReloading flag is set with the first call and  *)
(* only a new page starts with it cleared.                                 *)

Reloads == Cardinality({i \in 1..Len(navs) : navs[i].kind = "reload"})
ReloadTrigger == last.op = "historyRestore" \/ PageRestored

C34_ReloadAtMostOnce ==
    /\ [](/\ Reloads <= 1
          /\ (rev = "A" /\ ReloadTrigger) => (isReloading /\ Reloads = 1))
    /\ [][(isReloading /\ ~isReloading') => last'.op = "load"]_vars

(* a trigger arrives on a page that is reloading already, and is blocked *)
C34_Witness ==
    /\ rev = "A"
    /\ ReloadTrigger
    /\ navs = last.pre.navs
    /\ isReloading /\ Reloads = 1

----------------------------------------------------------------------------
(* C35: after an authChangedFromBackend event with isAuthenticated false   *)
(* storage holds no session token, whatever else the detail carries; an    *)
(* event without isAuthenticated changes nothing and emits nothing.        *)

BackendEvent == last.op = "authChangedFromBackend"
SaysLoggedOut == last.detail.has /\ last.detail.isAuth = "false"
SaysNothing == ~last.detail.has \/ last.detail.isAuth = "undefined"

C35_LoggedOutMeansNoToken ==
    BackendEvent =>
        /\ SaysLoggedOut => jwtToken = NoItem
        /\ SaysNothing => (jwtToken = last.pre.jwt /\ last.log = << >> /\ NothingScheduled)

----------------------------------------------------------------------------
(* C36: whether checkSession keeps the token or forces a logout depends    *)
(* only on the exp claim of the payload segment and on the time: a token   *)
(* is kept exactly when its payload decodes to an object whose exp is a    *)
(* number not before now (or a non-empty string), and any token with the   *)
(* same payload and another header or signature has the same outcome.      *)

SessionChecked == rev = "A" /\ last.op = "load" /\ last.pre.jwt # NoItem
Resigned(h, g) == << h, last.pre.jwt[2], g >>
KeepsSession(seg, t) ==
    /\ seg.b64 /\ seg.utf8 /\ seg.json.t = "object"
    /\ \/ seg.json.e = "string"
       \/ seg.json.e = "number" /\ seg.json.n # 0 /\ seg.json.n * TicksPerSec >= t

C36_OutcomeFromPayload ==
    SessionChecked =>
        /\ (jwtToken = last.pre.jwt) = KeepsSession(last.pre.jwt[2], last.pre.now)
        /\ \A h \in HeaderSegs, g \in SignatureSegs :
               LET other == checkSession([Fresh EXCEPT !.jwt = Resigned(h, g)], last.pre.now)
               IN /\ (other.jwt = NoItem) = (jwtToken = NoItem)
                  /\ other.threw = last.threw
                  /\ other.log = last.log

(* a session is kept although neither header nor signature decodes *)
C36_Witness ==
    /\ SessionChecked
    /\ last.pre.jwt[1] = NoSeg /\ last.pre.jwt[3] = NoSeg
    /\ jwtToken = last.pre.jwt

(* C37: removeImage(index) on a slot that holds a newly selected file      *)
(* leaves imageFiles[index] null and a preview that is not the new file's, *)
(* also when the slot has an original image                                *)
C37_RemoveDropsNewFile ==
    (form.op = "removeImage" /\ form.held # Null)
        => /\ form.imageFiles[form.index] = Null
           /\ form.imagePreviews[form.index] # DataUrl

(* C38: right after handleFileChange with a file, the slot's original URL  *)
(* is not in imagesToDelete and isMarkedForDeletion(index) is false        *)
C38_NewFileUnmarksOriginal ==
    (form.op = "handleFileChange" /\ form.chosen # Null)
        => /\ ~includes(form.imagesToDelete, getOriginalUrlForSlot(form, form.index))
           /\ ~isMarkedForDeletion(form, form.index)
C38_Witness ==
    /\ form.op = "handleFileChange"
    /\ form.chosen # Null
    /\ form.marked

(* C39: once initAlpineComponent has run, imagesToDelete has no entry      *)
(* twice and each entry is an element of existingImagesOnInit              *)
C39_MarksDistinctAndOriginal ==
    form.inited =>
        /\ \A j, k \in 1..Len(form.imagesToDelete) :
              form.imagesToDelete[j] = form.imagesToDelete[k] => j = k
        /\ \A k \in 1..Len(form.imagesToDelete) :
              includes(form.existingImagesOnInit, form.imagesToDelete[k])
C39_Witness ==
    /\ form.op = "removeImage"
    /\ form.marked
    /\ Len(form.imagesToDelete) = 1
    /\ Len(form.existingImagesOnInit) = 2
    /\ form.existingImagesOnInit[1] = form.existingImagesOnInit[2]

====
